---- MODULE Spec2Model ----
(***************************************************************************)
(* Confidence scoring and signal synthesis of the portfolio tracker.       *)
(*                                                                         *)
(* Units.  Scores and confidences are integers in tenths (5.0 is 50, the   *)
(* adjustment +1.5 is 15).  rsi is in tenths of an RSI point (75.1 is      *)
(* 751).  price, sma_20, sma_50, macd_hist and the fundamentals fields are *)
(* integers in their own unit; the code only compares them.                *)
(*                                                                         *)
(* A Python dict is a function whose DOMAIN is the set of keys present; a  *)
(* Python str is a TLA+ string, so "in" is a real substring test.          *)
(***************************************************************************)
EXTENDS Integers, Sequences, FiniteSets, TLC

VARIABLES
    fn,                 \* the function whose call the behaviour follows
    pc,                 \* "call" before the function has run, "done" after
    args,               \* its arguments
    ret,                \* its return value, NoRet while pc = "call"
    daily_report,       \* portfolio/daily_report.json: [exists, content]
    fundamentals_dir,   \* fundamentals/<ticker>.json: ticker -> dict
    synthesis_report    \* portfolio/synthesis_report.json: [exists, content]

vars == <<fn, pc, args, ret, daily_report, fundamentals_dir, synthesis_report>>

NoRet == "NoRet"
EmptyDict == <<>>

\* a file that does not exist, and a file holding a JSON document
NoFile == [exists |-> FALSE, content |-> EmptyDict]
File(content) == [exists |-> TRUE, content |-> content]

\* F applied to the value of e: e is evaluated once, as an assignment to a
\* local variable evaluates its right-hand side
Bind(e, F(_)) == CHOOSE r \in {F(x) : x \in {e}} : TRUE

\* dict.get(key, default)
Get(d, key, default) == IF key \in DOMAIN d THEN d[key] ELSE default

\* Python's  sub in s  on strings
Contains(sub, s) ==
    \E i \in 1..(Len(s) - Len(sub) + 1) : SubSeq(s, i, i + Len(sub) - 1) = sub

MinMutantSecond(a, b) == b
Min(a, b) == IF a < b THEN a ELSE b
Max(a, b) == IF a > b THEN a ELSE b
Abs(a) == IF a < 0 THEN 0 - a ELSE a

\* max(0, min(10, score)) on tenths
ClampMutantNoFloor(score) == Min(100, score)
Clamp(score) == Max(0, Min(100, score))

RECURSIVE SumDeltas(_)
SumDeltas(breakdown) ==
    IF breakdown = <<>> THEN 0
    ELSE breakdown[1].delta + SumDeltas(Tail(breakdown))

Entry(label, delta) == [label |-> label, delta |-> delta]

(***************************************************************************)
(* IEEE-754 binary64 arithmetic, as far as the code uses it.  A double is  *)
(* the record [p, e, d] standing for the real  p/d + e/(d * 2^FK):  p/d is *)
(* the decimal value (d is 1000 but for a quotient) and e the binary       *)
(* representation error.  Fround rounds non-negative reals; signs are      *)
(* handled by the callers.                                                 *)
(***************************************************************************)
FK == 60

Pow2(n) == 2 ^ n

\* 2^n mod m, twenty factors at a time
RECURSIVE Pow2Mod(_, _)
Pow2Mod(n, m) ==
    IF n <= 20 THEN (2 ^ n) % m
    ELSE (((2 ^ 20) % m) * Pow2Mod(n - 20, m)) % m

\* v >= 2^x for v = [p, e, d], p > 0
AtLeastPow2(v, x) ==
    LET lhs == v.p * Pow2(Max(0, 0 - x))
        rhs == v.d * Pow2(Max(0, x))
    IN  lhs > rhs \/ (lhs = rhs /\ v.e >= 0)

\* binary exponent of v: the x with 2^x <= v < 2^(x+1)
RECURSIVE ExpFrom(_, _)
ExpFrom(v, x) == IF AtLeastPow2(v, x + 1) THEN ExpFrom(v, x + 1) ELSE x
FExp(v) == IF AtLeastPow2(v, 0 - 4) THEN ExpFrom(v, 0 - 4) ELSE ExpFrom(v, 0 - 20)

\* v rounded to the grid 2^-g, ties to even mantissa
FroundGrid(v, g) ==
    LET G  == v.d * Pow2(FK - g)           \* grid step in units of e
        m2 == (Pow2(FK - g + 1) * (((v.p % v.d) * Pow2Mod(g - 1, v.d)) % v.d)
               + v.e) % (2 * G)
        r  == m2 % G
        odd == m2 >= G
    IN  IF 2 * r < G \/ (2 * r = G /\ ~odd)
        THEN [p |-> v.p, e |-> v.e - r, d |-> v.d]
        ELSE [p |-> v.p, e |-> v.e + G - r, d |-> v.d]

\* round the real number v to the nearest double: 53 bits from its exponent
FroundValue(v) ==
    IF v.p = 0 THEN [p |-> 0, e |-> 0, d |-> v.d]
    ELSE Bind(52 - FExp(v), LAMBDA g : FroundGrid(v, g))

Fround(v) == Bind(v, FroundValue)

\* the double nearest to the decimal of p thousandths (0.40 is 400)
FLit(p) == Fround([p |-> p, e |-> 0, d |-> 1000])

\* the double of a score in tenths; scores are multiples of 0.5, so exact
FScore(tenths) == [p |-> 100 * tenths, e |-> 0, d |-> 1000]

\* the double of an integer n
FInt(n) == [p |-> 1000 * n, e |-> 0, d |-> 1000]

FNeg(v) == [p |-> 0 - v.p, e |-> 0 - v.e, d |-> v.d]

\* x * w for an exact x (x.e = 0) of either sign and a positive w
FmulValue(x, w) ==
    Bind(Fround([p |-> (Abs(x.p) * w.p) \div 1000,
                 e |-> (Abs(x.p) * w.e) \div 1000, d |-> 1000]),
         LAMBDA m : IF x.p < 0 THEN FNeg(m) ELSE m)

Fmul(x, w) == Bind(x, LAMBDA xv : FmulValue(xv, w))

\* a + b for doubles of one denominator
Fadd(a, b) == Fround([p |-> a.p + b.p, e |-> a.e + b.e, d |-> a.d])

\* a / n for a positive integer n
Fdiv(a, n) == Fround([p |-> a.p, e |-> a.e, d |-> a.d * n])

\* a < b on doubles of one denominator
FLess(a, b) == a.p < b.p \/ (a.p = b.p /\ a.e < b.e)

\* round(v, 1): the decimal nearest to the double's exact value, in tenths
PyRound1MutantTruncate(v) == (10 * v.p) \div v.d
PyRound1Value(v) ==
    LET q == (10 * v.p) \div v.d
        r == (10 * v.p) % v.d
    IN  IF 2 * r > v.d \/ (2 * r = v.d /\ (v.e > 0 \/ (v.e = 0 /\ q % 2 = 1)))
        THEN q + 1 ELSE q

PyRound1(v) == Bind(v, PyRound1Value)

(***************************************************************************)
(* Technical Confidence Scorer                                             *)
(***************************************************************************)
\* RSI scoring, lines 56-71
TechRsiMutantOversoldClosed(rsi) ==
    IF 400 <= rsi /\ rsi <= 600 THEN <<Entry("RSI sweet spot (50)", 15)>>
    ELSE IF rsi <= 300 THEN <<Entry("RSI oversold", 30)>>
    ELSE IF rsi < 400 THEN <<Entry("RSI low", 15)>>
    ELSE IF rsi > 750 THEN <<Entry("RSI overbought", 0 - 30)>>
    ELSE IF rsi > 650 THEN <<Entry("RSI high", 0 - 15)>>
    ELSE <<>>
TechRsi(rsi) ==
    IF 400 <= rsi /\ rsi <= 600 THEN <<Entry("RSI sweet spot (50)", 15)>>
    ELSE IF rsi < 300 THEN <<Entry("RSI oversold", 30)>>
    ELSE IF rsi < 400 THEN <<Entry("RSI low", 15)>>
    ELSE IF rsi > 750 THEN <<Entry("RSI overbought", 0 - 30)>>
    ELSE IF rsi > 650 THEN <<Entry("RSI high", 0 - 15)>>
    ELSE <<>>

\* MACD scoring, lines 73-79
TechMacd(macd_hist) ==
    IF macd_hist > 0 THEN <<Entry("MACD bullish", 10)>>
    ELSE <<Entry("MACD bearish", 0 - 10)>>

\* Moving average scoring, lines 81-90
TechTrend(price, sma_20, sma_50) ==
    IF price > sma_20 /\ sma_20 > sma_50
    THEN <<Entry("Uptrend (price>MA20>MA50)", 20)>>
    ELSE IF price < sma_20 /\ sma_20 < sma_50 THEN <<Entry("Downtrend", 0 - 20)>>
    ELSE IF price > sma_20 THEN <<Entry("Above SMA20", 10)>>
    ELSE <<>>

\* one iteration of the signal loop, lines 94-105
TechSignalMutantMacdTag(sig) ==
    IF Contains("OVERBOUGHT", sig) THEN <<Entry(sig, 0 - 15)>>
    ELSE IF Contains("OVERSOLD", sig) THEN <<Entry(sig, 10)>>
    ELSE IF Contains("BULLISH", sig) THEN <<Entry(sig, 5)>>
    ELSE IF Contains("BEARISH", sig) /\ sig # "MACD_BEARISH" THEN <<Entry(sig, 0 - 5)>>
    ELSE <<>>
TechSignal(sig) ==
    IF Contains("OVERBOUGHT", sig) THEN <<Entry(sig, 0 - 15)>>
    ELSE IF Contains("OVERSOLD", sig) THEN <<Entry(sig, 10)>>
    ELSE IF Contains("BULLISH", sig) /\ sig # "MACD_BULLISH" THEN <<Entry(sig, 5)>>
    ELSE IF Contains("BEARISH", sig) /\ sig # "MACD_BEARISH" THEN <<Entry(sig, 0 - 5)>>
    ELSE <<>>

\* the signal loop, lines 93-105
RECURSIVE TechSignals(_)
TechSignals(signals) ==
    IF signals = <<>> THEN <<>>
    ELSE TechSignal(Head(signals)) \o TechSignals(Tail(signals))

\* the defaults of indicators.get, lines 50-54
TechDefaultsMutantRsiZero ==
    [rsi |-> 0, macd_hist |-> 0, price |-> 0, sma_20 |-> 0, sma_50 |-> 0]
TechDefaults ==
    [rsi |-> 500, macd_hist |-> 0, price |-> 0, sma_20 |-> 0, sma_50 |-> 0]

calculate_technical_score(indicators, signals) ==
    LET rsi       == Get(indicators, "rsi", TechDefaults.rsi)
        macd_hist == Get(indicators, "macd_hist", TechDefaults.macd_hist)
        price     == Get(indicators, "price", TechDefaults.price)
        sma_20    == Get(indicators, "sma_20", TechDefaults.sma_20)
        sma_50    == Get(indicators, "sma_50", TechDefaults.sma_50)
        breakdown == TechRsi(rsi) \o TechMacd(macd_hist)
                     \o TechTrend(price, sma_20, sma_50) \o TechSignals(signals)
        score     == 50 + SumDeltas(breakdown)
    IN  [score |-> Clamp(score), breakdown |-> breakdown]

(***************************************************************************)
(* Fundamental Confidence Scorer                                           *)
(***************************************************************************)
\* Python truth of d.get(key): present and not zero
Truthy(d, key) == key \in DOMAIN d /\ d[key] # 0

\* Revenue check, lines 121-128
FundRevenue(revenue) ==
    IF revenue > 50 THEN <<Entry("Large cap revenue", 15)>>
    ELSE IF revenue > 10 THEN <<Entry("Mid cap revenue", 10)>>
    ELSE <<>>

\* Gross margin, lines 130-140
FundMarginMutantHighClosed(gross_margin) ==
    IF gross_margin >= 60 THEN <<Entry("High margin", 20)>>
    ELSE IF gross_margin > 50 THEN <<Entry("Good margin", 10)>>
    ELSE IF gross_margin < 20 THEN <<Entry("Low margin", 0 - 20)>>
    ELSE <<>>
FundMargin(gross_margin) ==
    IF gross_margin > 60 THEN <<Entry("High margin", 20)>>
    ELSE IF gross_margin > 50 THEN <<Entry("Good margin", 10)>>
    ELSE IF gross_margin < 20 THEN <<Entry("Low margin", 0 - 20)>>
    ELSE <<>>

FundGuidanceMutantMagnitude(data) ==
    IF Truthy(data, "eps_guidance") /\ Truthy(data, "eps")
    THEN IF data.eps_guidance > data.eps
         THEN <<Entry("Raising guidance", 25)>>
         ELSE IF 10 * (data.eps - data.eps_guidance) > Abs(data.eps)
         THEN <<Entry("Guidance cut", 0 - 30)>>
         ELSE <<Entry("Stable guidance", 10)>>
    ELSE <<>>

\* EPS guidance, lines 142-155; eps * 0.9 is a float product
FundGuidance(data) ==
    IF Truthy(data, "eps_guidance") /\ Truthy(data, "eps")
    THEN IF data.eps_guidance > data.eps
         THEN <<Entry("Raising guidance", 25)>>
         ELSE IF FLess(FInt(data.eps_guidance), Fmul(FInt(data.eps), FLit(900)))
         THEN <<Entry("Guidance cut", 0 - 30)>>
         ELSE <<Entry("Stable guidance", 10)>>
    ELSE <<>>

\* EPS positive, lines 157-160
FundEps(data) ==
    IF Truthy(data, "eps") /\ data.eps > 0
    THEN <<Entry("Positive EPS", 10)>> ELSE <<>>

\* Operating income positive, lines 162-166
FundOpIncome(op_income) ==
    IF op_income > 0 THEN <<Entry("Operating profit", 10)>> ELSE <<>>

FundDefaultsMutantMargin ==
    [revenue_billions |-> 0, gross_margin_pct |-> 30, operating_income_billions |-> 0]

\* the defaults of data.get, lines 121, 131 and 163
FundDefaults ==
    [revenue_billions |-> 0, gross_margin_pct |-> 0, operating_income_billions |-> 0]

NoFundamentalsMutantScore == [score |-> 55, breakdown |-> <<Entry("No fundamentals available: 5", 0)>>]
NoFundamentals == [score |-> 50, breakdown |-> <<Entry("No fundamentals available: 5", 0)>>]

calculate_fundamental_score(fundamentals) ==
    LET data == Get(fundamentals, "data", EmptyDict)
    IN  IF DOMAIN data = {} THEN NoFundamentals
        ELSE LET breakdown ==
                     FundRevenue(Get(data, "revenue_billions", FundDefaults.revenue_billions))
                     \o FundMargin(Get(data, "gross_margin_pct", FundDefaults.gross_margin_pct))
                     \o FundGuidance(data)
                     \o FundEps(data)
                     \o FundOpIncome(Get(data, "operating_income_billions",
                                         FundDefaults.operating_income_billions))
                 score == 50 + SumDeltas(breakdown)
             IN  [score |-> Clamp(score), breakdown |-> breakdown]

(***************************************************************************)
(* Sentiment Confidence Scorer                                             *)
(***************************************************************************)
UpperCase == "ABCDEFGHIJKLMNOPQRSTUVWXYZ"
LowerCase == "abcdefghijklmnopqrstuvwxyz"

UpperToLower ==
    [c \in {SubSeq(UpperCase, i, i) : i \in 1..26} |->
        LET i == CHOOSE j \in 1..26 : SubSeq(UpperCase, j, j) = c
        IN  SubSeq(LowerCase, i, i)]

LowerChar(c) == IF c \in DOMAIN UpperToLower THEN UpperToLower[c] ELSE c

\* str.lower()
RECURSIVE Lower(_)
Lower(str) ==
    IF Len(str) = 0 THEN ""
    ELSE LowerChar(SubSeq(str, 1, 1)) \o Lower(SubSeq(str, 2, Len(str)))

positive_keywords ==
    <<"beat", "raise", "growth", "bullish", "upgrade", "profit", "soar", "rally", "record">>
negative_keywords ==
    <<"miss", "cut", "downgrade", "loss", "fear", "crash", "plunge", "warning", "layoff">>

\* for kw in keywords: if kw in title: count += 1; break  (lines 190-197)
RECURSIVE KeywordCountMutantNoBreak(_, _)
KeywordCountMutantNoBreak(keywords, title) ==
    IF keywords = <<>> THEN 0
    ELSE (IF Contains(Head(keywords), title) THEN 1 ELSE 0)
         + KeywordCountMutantNoBreak(Tail(keywords), title)
RECURSIVE KeywordCount(_, _)
KeywordCount(keywords, title) ==
    IF keywords = <<>> THEN 0
    ELSE IF Contains(Head(keywords), title) THEN 1
    ELSE KeywordCount(Tail(keywords), title)

\* line 188
ArticleText(article) ==
    Lower(Get(article, "title", "") \o " " \o Get(article, "content", ""))

\* one iteration of the article loop, lines 188-197: what the article adds
\* to <<positive_count, negative_count>>
ArticleCounts(article) ==
    LET title == ArticleText(article)
    IN  <<KeywordCount(positive_keywords, title), KeywordCount(negative_keywords, title)>>

\* the articles of the model, and ArticleCounts tabulated over them
AllArticles ==
    {[title |-> "NVDA beats", content |-> "AI demand"],
     [title |-> "MSFT raises", content |-> "growth"],
     [title |-> "Profit WARNING", content |-> ""],
     [title |-> "Plunge", content |-> "downgrade"],
     [title |-> "New executive"],
     [content |-> "Results"],
     [title |-> "NVDA beats earnings", content |-> "Strong AI demand"],
     [title |-> "MSFT raises guidance", content |-> "Cloud growth strong"]}

ArticleCountsTable == [a \in AllArticles |-> ArticleCounts(a)]

\* the article loop, lines 187-197: <<positive_count, negative_count>>
RECURSIVE SentCounts(_)
SentCounts(news) ==
    IF news = <<>> THEN <<0, 0>>
    ELSE LET counts == ArticleCountsTable[Head(news)]
             rest   == SentCounts(Tail(news))
         IN  <<counts[1] + rest[1], counts[2] + rest[2]>>

NoNews == [score |-> 50, breakdown |-> <<Entry("No news: 5", 0)>>]

calculate_sentiment_score(news) ==
    IF news = <<>> THEN NoNews
    ELSE LET counts == SentCounts(news)
             positive_count == counts[1]
             negative_count == counts[2]
             breakdown ==
                 IF positive_count > negative_count
                 THEN <<Entry("Positive news (" \o ToString(positive_count) \o ")",
                              10 * Min(3, positive_count - negative_count))>>
                 ELSE IF negative_count > positive_count
                 THEN <<Entry("Negative news (" \o ToString(negative_count) \o ")",
                              0 - 10 * Min(3, negative_count - positive_count))>>
                 ELSE <<>>
             score == 50 + SumDeltas(breakdown)
         IN  [score |-> Clamp(score), breakdown |-> breakdown]

(***************************************************************************)
(* Confidence Synthesizer                                                  *)
(***************************************************************************)
\* lines 20-25
WEIGHTSMutantTechnical ==
    [technical |-> FLit(450), fundamental |-> FLit(350), sentiment |-> FLit(250)]
WEIGHTS ==
    [technical |-> FLit(400), fundamental |-> FLit(350), sentiment |-> FLit(250)]

\* Weighted total, lines 224-229: a float expression, evaluated left to right
Weighted(tech_score, fund_score, sent_score) ==
    Fadd(Fadd(Fmul(FScore(tech_score), WEIGHTS.technical),
              Fmul(FScore(fund_score), WEIGHTS.fundamental)),
         Fmul(FScore(sent_score), WEIGHTS.sentiment))

\* line 231, in tenths
Confidence(tech_score, fund_score, sent_score) ==
    PyRound1(Weighted(tech_score, fund_score, sent_score))

Grade(rating, action, reason) == [rating |-> rating, action |-> action, reason |-> reason]

\* Determine rating, lines 233-261.  The ladder compares a float with
\* integers; c is that float in hundredths, so that 6.99 is 699.
RatingMutantOpenA(c) ==
    IF c >= 800 THEN Grade("A+", "HOLD", "Strong buy/hold signal")
    ELSE IF c > 700 THEN Grade("A", "HOLD", "Solid position")
    ELSE IF c >= 600 THEN Grade("B+", "HOLD", "Positive, monitor")
    ELSE IF c >= 500 THEN Grade("B", "WATCH", "Neutral, watch for changes")
    ELSE IF c >= 400 THEN Grade("C", "CONSIDER REDUCING", "Caution advised")
    ELSE IF c >= 300 THEN Grade("D", "REDUCE", "Higher risk")
    ELSE Grade("F", "SELL", "High risk - consider exit")
Rating(c) ==
    IF c >= 800 THEN Grade("A+", "HOLD", "Strong buy/hold signal")
    ELSE IF c >= 700 THEN Grade("A", "HOLD", "Solid position")
    ELSE IF c >= 600 THEN Grade("B+", "HOLD", "Positive, monitor")
    ELSE IF c >= 500 THEN Grade("B", "WATCH", "Neutral, watch for changes")
    ELSE IF c >= 400 THEN Grade("C", "CONSIDER REDUCING", "Caution advised")
    ELSE IF c >= 300 THEN Grade("D", "REDUCE", "Higher risk")
    ELSE Grade("F", "SELL", "High risk - consider exit")

\* risk factors, lines 265-277
RiskFactorsMutantOverboughtClosed(rsi, fund_score, sent_score) ==
    (IF rsi >= 700 THEN <<"RSI overbought">> ELSE <<>>)
    \o (IF rsi < 350 THEN <<"RSI oversold - potential trap">> ELSE <<>>)
    \o (IF fund_score < 40 THEN <<"Weak fundamentals">> ELSE <<>>)
    \o (IF sent_score < 40 THEN <<"Negative sentiment">> ELSE <<>>)
RiskFactors(rsi, fund_score, sent_score) ==
    (IF rsi > 700 THEN <<"RSI overbought">> ELSE <<>>)
    \o (IF rsi < 350 THEN <<"RSI oversold - potential trap">> ELSE <<>>)
    \o (IF fund_score < 40 THEN <<"Weak fundamentals">> ELSE <<>>)
    \o (IF sent_score < 40 THEN <<"Negative sentiment">> ELSE <<>>)

\* ', '.join(items)
RECURSIVE Join(_)
Join(items) ==
    IF items = <<>> THEN ""
    ELSE IF Len(items) = 1 THEN items[1]
    ELSE items[1] \o ", " \o Join(Tail(items))

SuggestionMutantNone(confidence, ticker, reason, rsi, fund_score, sent_score) ==
    IF confidence < 50
    THEN "Consider reducing " \o ticker \o " position. Risk factors: "
         \o (IF RiskFactors(rsi, fund_score, sent_score) = <<>> THEN "none"
             ELSE Join(RiskFactors(rsi, fund_score, sent_score)))
    ELSE "Hold " \o ticker \o " - " \o reason

\* lines 263-281
Suggestion(confidence, ticker, reason, rsi, fund_score, sent_score) ==
    IF confidence < 50
    THEN "Consider reducing " \o ticker \o " position. Risk factors: "
         \o Join(RiskFactors(rsi, fund_score, sent_score))
    ELSE "Hold " \o ticker \o " - " \o reason

\* lines 233-296: the verdict built from the three component results and the
\* rounded confidence
Verdict(holding, tech, fund, sent, confidence) ==
    LET grade == Rating(10 * confidence)
        rsi == Get(Get(holding, "indicators", EmptyDict), "rsi", 500)
    IN  [ticker     |-> Get(holding, "ticker", "None"),
         company    |-> Get(holding, "company", "None"),
         confidence |-> confidence,
         rating     |-> grade.rating,
         action     |-> grade.action,
         reason     |-> grade.reason,
         suggestion |-> Suggestion(confidence, Get(holding, "ticker", "None"),
                                   grade.reason, rsi, fund.score, sent.score),
         breakdown  |-> [technical   |-> [score |-> tech.score, details |-> tech.breakdown],
                         fundamental |-> [score |-> fund.score, details |-> fund.breakdown],
                         sentiment   |-> [score |-> sent.score, details |-> sent.breakdown]]]

\* lines 210-231: the three components, then the weighted and rounded total
calculate_confidence_score(holding, fundamentals) ==
    Bind(<<calculate_technical_score(Get(holding, "indicators", EmptyDict),
                                     Get(holding, "signals", <<>>)),
           calculate_fundamental_score(fundamentals),
           calculate_sentiment_score(Get(holding, "news", <<>>))>>,
         LAMBDA c :
             Bind(Confidence(c[1].score, c[2].score, c[3].score),
                  LAMBDA confidence : Verdict(holding, c[1], c[2], c[3], confidence)))

(***************************************************************************)
(* Inputs of the technical scorer and of the signal classifier             *)
(***************************************************************************)
MaxSignals == 2

IndicatorFields == {"rsi", "macd_hist", "price", "sma_20", "sma_50"}
RsiValues == {0, 299, 300, 399, 400, 500, 600, 601, 650, 651, 750, 751, 1500}
MacdValues == {0 - 1, 0, 1}
\* <<price, sma_20, sma_50>>
TrendValues == {<<3, 2, 1>>, <<1, 2, 3>>, <<3, 2, 2>>, <<3, 2, 3>>,
                <<2, 2, 2>>, <<1, 2, 1>>, <<2, 3, 1>>}

Indicators(rsi, macd_hist, t) ==
    [rsi |-> rsi, macd_hist |-> macd_hist, price |-> t[1], sma_20 |-> t[2], sma_50 |-> t[3]]

Restrict(d, keys) == [k \in keys |-> d[k]]

FullIndicatorSets ==
    {Indicators(r, m, t) : r \in RsiValues, m \in MacdValues, t \in TrendValues}

\* indicator dicts with fields missing, the empty dict among them
PartialIndicatorSets ==
    {Restrict(d, keys) :
        d \in {Indicators(280, 1, <<3, 2, 1>>), Indicators(760, 0 - 1, <<1, 2, 3>>)},
        keys \in SUBSET IndicatorFields}

IndicatorSets == FullIndicatorSets \cup PartialIndicatorSets

TagSet == {"RSI_OVERBOUGHT", "RSI_OVERSOLD", "RSI_HIGH", "RSI_LOW",
           "MACD_BULLISH", "MACD_BEARISH", "BULLISH_TREND", "BEARISH_TREND"}

SeqsUpTo(S, n) == UNION {[1..k -> S] : k \in 0..n}

SignalLists == SeqsUpTo(TagSet, MaxSignals)

Files ==
    /\ daily_report = NoFile
    /\ fundamentals_dir = EmptyDict
    /\ synthesis_report = NoFile

(***************************************************************************)
(* calculate_technical_score applied to every indicator set and tag list   *)
(***************************************************************************)
InitTech ==
    /\ fn = "calculate_technical_score"
    /\ args \in {[indicators |-> i, signals |-> s] : i \in IndicatorSets, s \in SignalLists}
    /\ pc = "call"
    /\ ret = NoRet
    /\ Files

CallTech ==
    /\ fn = "calculate_technical_score"
    /\ pc = "call"
    /\ pc' = "done"
    /\ ret' = calculate_technical_score(args.indicators, args.signals)
    /\ UNCHANGED <<fn, args, daily_report, fundamentals_dir, synthesis_report>>

NextTech == CallTech

SpecTech == InitTech /\ [][NextTech]_vars

\* C4: the technical score lies in [0,10] for every indicator set and every
\* list of signal tags, out-of-range rsi and unrelated tag lists included.
C4_TechScoreInRange ==
    (fn = "calculate_technical_score" /\ pc = "done")
        => (0 <= ret.score /\ ret.score <= 100)

\* rsi = 150 with two OVERBOUGHT tags: the raw sum is far below 0 and the
\* returned score is 0
C4_Witness ==
    /\ fn = "calculate_technical_score" /\ pc = "done"
    /\ Get(args.indicators, "rsi", 500) = 1500
    /\ args.signals = <<"RSI_OVERBOUGHT", "RSI_OVERBOUGHT">>
    /\ 50 + SumDeltas(ret.breakdown) < 0
    /\ ret.score = 0

\* the deltas of a breakdown, in order
Deltas(breakdown) == [i \in 1..Len(breakdown) |-> breakdown[i].delta]

\* a sequence without its zeros
RECURSIVE NonZero(_)
NonZero(ds) ==
    IF ds = <<>> THEN <<>>
    ELSE (IF Head(ds) = 0 THEN <<>> ELSE <<Head(ds)>>) \o NonZero(Tail(ds))

\* the band table of the claim
C5_RsiBand(rsi) ==
    CASE 400 <= rsi /\ rsi <= 600 -> 15
      [] rsi < 300                -> 30
      [] 300 <= rsi /\ rsi < 400  -> 15
      [] rsi > 750                -> 0 - 30
      [] 650 < rsi /\ rsi <= 750  -> 0 - 15
      [] 600 < rsi /\ rsi <= 650  -> 0

C5_Macd(macd_hist) == IF macd_hist > 0 THEN 10 ELSE 0 - 10

C5_Trend(price, sma_20, sma_50) ==
    CASE price > sma_20 /\ sma_20 > sma_50 -> 20
      [] price < sma_20 /\ sma_20 < sma_50 -> 0 - 20
      [] OTHER -> IF price > sma_20 THEN 10 ELSE 0

C5_Tag(sig) ==
    CASE Contains("OVERBOUGHT", sig) -> 0 - 15
      [] ~Contains("OVERBOUGHT", sig) /\ Contains("OVERSOLD", sig) -> 10
      [] ~Contains("OVERBOUGHT", sig) /\ ~Contains("OVERSOLD", sig)
         /\ Contains("BULLISH", sig) /\ sig # "MACD_BULLISH" -> 5
      [] ~Contains("OVERBOUGHT", sig) /\ ~Contains("OVERSOLD", sig)
         /\ ~(Contains("BULLISH", sig) /\ sig # "MACD_BULLISH")
         /\ Contains("BEARISH", sig) /\ sig # "MACD_BEARISH" -> 0 - 5
      [] OTHER -> 0

\* the adjustments the claim lists for indicators i (all fields present)
\* and tags s, zeros included, in the claim's order
C5_Adjustments(i, s) ==
    <<C5_RsiBand(i.rsi), C5_Macd(i.macd_hist), C5_Trend(i.price, i.sma_20, i.sma_50)>>
    \o [k \in 1..Len(s) |-> C5_Tag(s[k])]

RECURSIVE SumSeq(_)
SumSeq(ds) == IF ds = <<>> THEN 0 ELSE Head(ds) + SumSeq(Tail(ds))

\* C5: before clamping, the technical score is 5 plus one RSI band
\* adjustment, one MACD adjustment, one trend adjustment and at most one
\* adjustment per signal tag; the breakdown has one entry per adjustment
\* applied, in that order.
C5_TechScoreTable ==
    (fn = "calculate_technical_score" /\ pc = "done"
     /\ DOMAIN args.indicators = IndicatorFields)
        => LET adj == C5_Adjustments(args.indicators, args.signals)
           IN  /\ Deltas(ret.breakdown) = NonZero(adj)
               /\ ret.score = Max(0, Min(100, 50 + SumSeq(adj)))

\* rsi 29.9 with MACD up, an uptrend and the tags RSI_OVERSOLD, BULLISH_TREND:
\* all four kinds of adjustment are applied, 5+3+1+2+1+0.5
C5_Witness ==
    /\ fn = "calculate_technical_score" /\ pc = "done"
    /\ args.indicators = Indicators(299, 1, <<3, 2, 1>>)
    /\ args.signals = <<"RSI_OVERSOLD", "BULLISH_TREND">>
    /\ Deltas(ret.breakdown) = <<30, 10, 20, 10, 5>>

\* the indicator set with every missing field filled with value v[field]
Filled(i, v) == [k \in IndicatorFields |-> IF k \in DOMAIN i THEN i[k] ELSE v[k]]

\* C9 as stated: missing fields default to rsi=50 and 0, and for an empty
\* indicator set and an empty signal list the score is the base 5.0 with no
\* adjustment applied.
C9_Original ==
    (fn = "calculate_technical_score" /\ pc = "done"
     /\ DOMAIN args.indicators = {} /\ args.signals = <<>>)
        => (ret.score = 50 /\ ret.breakdown = <<>>)

\* C9 amended: a missing rsi is scored as rsi=50 and every other missing
\* field as 0; for an empty indicator set and an empty signal list this
\* gives 5.5 with two adjustments, +1.5 (RSI 40..60) and -1 (macd_hist <= 0).
C9_TechDefaults ==
    (fn = "calculate_technical_score" /\ pc = "done")
        => LET filled == Filled(args.indicators,
                                [rsi |-> 500, macd_hist |-> 0, price |-> 0,
                                 sma_20 |-> 0, sma_50 |-> 0])
               adj == C5_Adjustments(filled, args.signals)
           IN  /\ Deltas(ret.breakdown) = NonZero(adj)
               /\ ret.score = Max(0, Min(100, 50 + SumSeq(adj)))
               /\ (DOMAIN args.indicators = {} /\ args.signals = <<>>)
                    => (ret.score = 55 /\ Deltas(ret.breakdown) = <<15, 0 - 10>>)

C9_Witness ==
    /\ fn = "calculate_technical_score" /\ pc = "done"
    /\ DOMAIN args.indicators = {} /\ args.signals = <<>>
    /\ ret.score = 55

(***************************************************************************)
(* Indicator Signal Classifier (tracker.py)                                *)
(***************************************************************************)
\* RSI signals, lines 260-268
SigRsiMutantOverboughtClosed(rsi) ==
    IF rsi >= 750 THEN <<"RSI_OVERBOUGHT">>
    ELSE IF rsi < 300 THEN <<"RSI_OVERSOLD">>
    ELSE IF rsi > 650 THEN <<"RSI_HIGH">>
    ELSE IF rsi < 400 THEN <<"RSI_LOW">>
    ELSE <<>>
SigRsi(rsi) ==
    IF rsi > 750 THEN <<"RSI_OVERBOUGHT">>
    ELSE IF rsi < 300 THEN <<"RSI_OVERSOLD">>
    ELSE IF rsi > 650 THEN <<"RSI_HIGH">>
    ELSE IF rsi < 400 THEN <<"RSI_LOW">>
    ELSE <<>>

\* MACD signals, lines 270-274
SigMacdMutantNoBearish(macd_hist) ==
    IF macd_hist > 0 THEN <<"MACD_BULLISH">> ELSE <<>>
SigMacd(macd_hist) ==
    IF macd_hist > 0 THEN <<"MACD_BULLISH">> ELSE <<"MACD_BEARISH">>

\* Moving average signals, lines 276-280
SigTrend(price, sma_20, sma_50) ==
    IF price > sma_20 /\ sma_20 > sma_50 THEN <<"BULLISH_TREND">>
    ELSE IF price < sma_20 /\ sma_20 < sma_50 THEN <<"BEARISH_TREND">>
    ELSE <<>>

BullishVote(s) == Contains("BULLISH", s) \/ Contains("OVERSOLD", s) \/ Contains("LOW", s)
BearishVoteMutantLow(s) ==
    Contains("BEARISH", s) \/ Contains("OVERBOUGHT", s) \/ Contains("HIGH", s)
        \/ Contains("LOW", s)
BearishVote(s) == Contains("BEARISH", s) \/ Contains("OVERBOUGHT", s) \/ Contains("HIGH", s)

\* Determine overall, lines 282-291
SigOverallMutantTieBullish(signals) ==
    LET bullish == Len(SelectSeq(signals, BullishVote))
        bearish == Len(SelectSeq(signals, BearishVote))
    IN  IF bullish >= bearish THEN "BULLISH"
        ELSE IF bearish > bullish THEN "BEARISH"
        ELSE "NEUTRAL"
SigOverall(signals) ==
    LET bullish == Len(SelectSeq(signals, BullishVote))
        bearish == Len(SelectSeq(signals, BearishVote))
    IN  IF bullish > bearish THEN "BULLISH"
        ELSE IF bearish > bullish THEN "BEARISH"
        ELSE "NEUTRAL"

get_signal(indicators) ==
    LET rsi       == Get(indicators, "rsi", 500)
        macd_hist == Get(indicators, "macd_hist", 0)
        price     == Get(indicators, "price", 0)
        sma_20    == Get(indicators, "sma_20", 0)
        sma_50    == Get(indicators, "sma_50", 0)
        signals   == SigRsi(rsi) \o SigMacd(macd_hist) \o SigTrend(price, sma_20, sma_50)
    IN  [signal |-> SigOverall(signals), signals |-> signals]

(***************************************************************************)
(* get_signal applied to every indicator set                               *)
(***************************************************************************)
InitSignal ==
    /\ fn = "get_signal"
    /\ args \in {[indicators |-> i] : i \in IndicatorSets}
    /\ pc = "call"
    /\ ret = NoRet
    /\ Files

CallSignal ==
    /\ fn = "get_signal"
    /\ pc = "call"
    /\ pc' = "done"
    /\ ret' = get_signal(args.indicators)
    /\ UNCHANGED <<fn, args, daily_report, fundamentals_dir, synthesis_report>>

NextSignal == CallSignal

SpecSignal == InitSignal /\ [][NextSignal]_vars

Elems(seq) == {seq[i] : i \in 1..Len(seq)}

\* C10: the tags of get_signal match the boundary table: RSI_OVERBOUGHT iff
\* rsi>75, RSI_OVERSOLD iff rsi<30, RSI_HIGH iff 65<rsi<=75, RSI_LOW iff
\* 30<=rsi<40, no RSI tag iff 40<=rsi<=65; MACD_BULLISH iff macd_hist>0,
\* otherwise MACD_BEARISH; BULLISH_TREND iff price>sma_20>sma_50,
\* BEARISH_TREND iff price<sma_20<sma_50, otherwise no trend tag.
C10_SignalTable ==
    (fn = "get_signal" /\ pc = "done")
        => LET i == Filled(args.indicators,
                           [rsi |-> 500, macd_hist |-> 0, price |-> 0,
                            sma_20 |-> 0, sma_50 |-> 0])
               tags == Elems(ret.signals)
               rsiTags == tags \cap {"RSI_OVERBOUGHT", "RSI_OVERSOLD", "RSI_HIGH", "RSI_LOW"}
           IN  /\ ("RSI_OVERBOUGHT" \in tags) <=> (i.rsi > 750)
               /\ ("RSI_OVERSOLD" \in tags) <=> (i.rsi < 300)
               /\ ("RSI_HIGH" \in tags) <=> (650 < i.rsi /\ i.rsi <= 750)
               /\ ("RSI_LOW" \in tags) <=> (300 <= i.rsi /\ i.rsi < 400)
               /\ (rsiTags = {}) <=> (400 <= i.rsi /\ i.rsi <= 650)
               /\ ("MACD_BULLISH" \in tags) <=> (i.macd_hist > 0)
               /\ ("MACD_BEARISH" \in tags) <=> ~(i.macd_hist > 0)
               /\ ("BULLISH_TREND" \in tags) <=> (i.price > i.sma_20 /\ i.sma_20 > i.sma_50)
               /\ ("BEARISH_TREND" \in tags) <=> (i.price < i.sma_20 /\ i.sma_20 < i.sma_50)
               /\ tags \subseteq TagSet

\* rsi exactly 75 with macd_hist 0: RSI_HIGH, not RSI_OVERBOUGHT, and
\* MACD_BEARISH
C10_Witness ==
    /\ fn = "get_signal" /\ pc = "done"
    /\ args.indicators = Indicators(750, 0, <<2, 2, 2>>)
    /\ ret.signals = <<"RSI_HIGH", "MACD_BEARISH">>

\* the number of tags of a list that contain one of the words
C11_Votes(signals, words) ==
    Cardinality({i \in 1..Len(signals) : \E w \in words : Contains(w, signals[i])})

\* C11: the overall label of get_signal is BULLISH iff the tags containing
\* BULLISH, OVERSOLD or LOW outnumber the tags containing BEARISH,
\* OVERBOUGHT or HIGH, BEARISH iff the second number exceeds the first, and
\* NEUTRAL iff the two numbers are equal.
C11_OverallLabel ==
    (fn = "get_signal" /\ pc = "done")
        => LET bullish == C11_Votes(ret.signals, {"BULLISH", "OVERSOLD", "LOW"})
               bearish == C11_Votes(ret.signals, {"BEARISH", "OVERBOUGHT", "HIGH"})
           IN  /\ (ret.signal = "BULLISH") <=> (bullish > bearish)
               /\ (ret.signal = "BEARISH") <=> (bearish > bullish)
               /\ (ret.signal = "NEUTRAL") <=> (bullish = bearish)

\* a tie: RSI_LOW votes bullish, MACD_BEARISH votes bearish, no trend tag
C11_Witness ==
    /\ fn = "get_signal" /\ pc = "done"
    /\ ret.signals = <<"RSI_LOW", "MACD_BEARISH">>
    /\ ret.signal = "NEUTRAL"

C12_RsiTags == {"RSI_OVERBOUGHT", "RSI_OVERSOLD", "RSI_HIGH", "RSI_LOW"}
C12_MacdTags == {"MACD_BULLISH", "MACD_BEARISH"}
C12_TrendTags == {"BULLISH_TREND", "BEARISH_TREND"}

\* the positions of a tag list that hold a tag of the given kind
C12_Positions(signals, kind) == {i \in 1..Len(signals) : signals[i] \in kind}

\* C12: the tag list of get_signal holds at most one RSI-tier tag, exactly
\* one MACD tag and at most one trend tag, in the order RSI, MACD, trend;
\* hence it has between 1 and 3 tags and no tag twice.
C12_TagListShape ==
    (fn = "get_signal" /\ pc = "done")
        => LET rsi   == C12_Positions(ret.signals, C12_RsiTags)
               macd  == C12_Positions(ret.signals, C12_MacdTags)
               trend == C12_Positions(ret.signals, C12_TrendTags)
           IN  /\ Cardinality(rsi) <= 1
               /\ Cardinality(macd) = 1
               /\ Cardinality(trend) <= 1
               /\ rsi \cup macd \cup trend = 1..Len(ret.signals)
               /\ \A i \in rsi, j \in macd : i < j
               /\ \A i \in macd, j \in trend : i < j
               /\ 1 <= Len(ret.signals) /\ Len(ret.signals) <= 3
               /\ \A i, j \in 1..Len(ret.signals) :
                      ret.signals[i] = ret.signals[j] => i = j

\* a list of three tags, one of each kind
C12_Witness ==
    /\ fn = "get_signal" /\ pc = "done"
    /\ ret.signals = <<"RSI_OVERBOUGHT", "MACD_BEARISH", "BEARISH_TREND">>

(***************************************************************************)
(* Inputs of the fundamental and sentiment scorers                         *)
(***************************************************************************)
MaxNews == 4

\* an optional field: <<>> when the key is missing, <<v>> when it holds v
Opt(values) == {<<>>} \cup {<<v>> : v \in values}

\* the dict with the keys of the fields that are not missing
Present(fields) ==
    LET keys == {k \in DOMAIN fields : Len(fields[k]) = 1}
    IN  [k \in keys |-> fields[k][1]]

\* the data mappings: every field present or not, values around the thresholds
DataDicts ==
    {Present([revenue_billions |-> r, gross_margin_pct |-> g, eps |-> e,
              eps_guidance |-> eg, operating_income_billions |-> o,
              cogs_billions |-> c]) :
        r \in Opt({10, 11, 50, 51}), g \in Opt({19, 20, 50, 51, 60, 61}),
        e \in Opt({0 - 10, 0, 10}), eg \in Opt({0 - 11, 0 - 10, 0 - 9, 0, 8, 9, 10, 11}),
        o \in Opt({0, 1}), c \in Opt({1})}

\* fundamentals records: no file ({}), a record without "data", and records
\* with a data mapping (the empty one among them)
FundamentalRecords ==
    {EmptyDict, [status |-> "error"]}
    \cup {[status |-> "success", data |-> d] : d \in DataDicts}

Articles == {a \in AllArticles : Len(Get(a, "title", "")) <= 14}

NewsLists == SeqsUpTo(Articles, MaxNews)

(***************************************************************************)
(* calculate_fundamental_score and calculate_sentiment_score applied to    *)
(* their inputs                                                            *)
(***************************************************************************)
InitFund ==
    /\ fn = "calculate_fundamental_score"
    /\ args \in {[fundamentals |-> f] : f \in FundamentalRecords}
    /\ pc = "call"
    /\ ret = NoRet
    /\ Files

CallFund ==
    /\ fn = "calculate_fundamental_score"
    /\ pc = "call"
    /\ pc' = "done"
    /\ ret' = calculate_fundamental_score(args.fundamentals)
    /\ UNCHANGED <<fn, args, daily_report, fundamentals_dir, synthesis_report>>

InitSent ==
    /\ fn = "calculate_sentiment_score"
    /\ args \in {[news |-> n] : n \in NewsLists}
    /\ pc = "call"
    /\ ret = NoRet
    /\ Files

CallSent ==
    /\ fn = "calculate_sentiment_score"
    /\ pc = "call"
    /\ pc' = "done"
    /\ ret' = calculate_sentiment_score(args.news)
    /\ UNCHANGED <<fn, args, daily_report, fundamentals_dir, synthesis_report>>

InitFundSent == InitFund \/ InitSent

NextFundSent == CallFund \/ CallSent

SpecFundSent == InitFundSent /\ [][NextFundSent]_vars

\* the data mapping of a fundamentals record, empty when there is none
C6_Data(f) == IF "data" \in DOMAIN f THEN f.data ELSE EmptyDict

\* a field of the data mapping, 0 when absent
C6_Field(d, k) == IF k \in DOMAIN d THEN d[k] ELSE 0

\* the adjustments the claim lists, zeros included, in the claim's order
C6_Adjustments(d) ==
    LET rev == C6_Field(d, "revenue_billions")
        gm  == C6_Field(d, "gross_margin_pct")
        eps == C6_Field(d, "eps")
        eg  == C6_Field(d, "eps_guidance")
        op  == C6_Field(d, "operating_income_billions")
    IN  << IF rev > 50 THEN 15 ELSE IF rev > 10 THEN 10 ELSE 0,
           IF gm > 60 THEN 20 ELSE IF gm > 50 THEN 10 ELSE IF gm < 20 THEN 0 - 20 ELSE 0,
           IF eg # 0 /\ eps # 0
           THEN (IF eg > eps THEN 25 ELSE IF 10 * eg < 9 * eps THEN 0 - 30 ELSE 10)
           ELSE 0,
           IF eps > 0 THEN 10 ELSE 0,
           IF op > 0 THEN 10 ELSE 0 >>

\* C6: for a record with a non-empty data mapping the fundamental score is
\* clamp[0,10] of 5 plus the revenue, margin, EPS-guidance, positive-EPS and
\* operating-income adjustments of the claim (an absent field counting as
\* 0), and it always lies in [0,10].
C6_FundScoreTable ==
    (fn = "calculate_fundamental_score" /\ pc = "done"
     /\ DOMAIN C6_Data(args.fundamentals) # {})
        => LET adj == C6_Adjustments(C6_Data(args.fundamentals))
           IN  /\ ret.score = Max(0, Min(100, 50 + SumSeq(adj)))
               /\ Deltas(ret.breakdown) = NonZero(adj)
               /\ 0 <= ret.score /\ ret.score <= 100

\* large revenue, high margin, raised guidance, positive EPS and operating
\* profit: 5+1.5+2+2.5+1+1 = 13, returned as 10
C6_Witness ==
    /\ fn = "calculate_fundamental_score" /\ pc = "done"
    /\ "data" \in DOMAIN args.fundamentals
    /\ args.fundamentals.data =
         [revenue_billions |-> 51, gross_margin_pct |-> 61, eps |-> 10,
          eps_guidance |-> 11, operating_income_billions |-> 1]
    /\ Deltas(ret.breakdown) = <<15, 20, 25, 10, 10>>
    /\ ret.score = 100

\* a text field of an article, empty when absent
C7_Text(a, k) == IF k \in DOMAIN a THEN a[k] ELSE ""

\* the number of items of news whose text contains some keyword of kws
C7_Items(news, kws) ==
    Cardinality({i \in 1..Len(news) :
        \E k \in 1..Len(kws) :
            Contains(kws[k], Lower(C7_Text(news[i], "title") \o " "
                                   \o C7_Text(news[i], "content")))})

\* C7: for a non-empty news list every item adds at most 1 to the positive
\* count and at most 1 to the negative count, independently; the score is
\* 5 + min(3, P - N) when positives lead, 5 - min(3, N - P) when negatives
\* lead, and 5 on a tie.
C7_SentimentScore ==
    (fn = "calculate_sentiment_score" /\ pc = "done" /\ args.news # <<>>)
        => LET P == C7_Items(args.news, positive_keywords)
               N == C7_Items(args.news, negative_keywords)
           IN  /\ P > N => /\ ret.score = 50 + 10 * Min(3, P - N)
                           /\ Len(ret.breakdown) = 1
                           /\ ret.breakdown[1].label = "Positive news (" \o ToString(P) \o ")"
               /\ N > P => /\ ret.score = 50 - 10 * Min(3, N - P)
                           /\ Len(ret.breakdown) = 1
                           /\ ret.breakdown[1].label = "Negative news (" \o ToString(N) \o ")"
               /\ P = N => ret.score = 50 /\ ret.breakdown = <<>>

\* an item with two positive keywords (raise, growth) counts once, and an
\* item with a positive and a negative keyword (profit, warning) counts on
\* both sides: P = 2, N = 1, score 6.0
C7_Witness ==
    /\ fn = "calculate_sentiment_score" /\ pc = "done"
    /\ args.news = <<[title |-> "MSFT raises", content |-> "growth"],
                     [title |-> "Profit WARNING", content |-> ""]>>
    /\ ret.score = 60
    /\ ret.breakdown[1].label = "Positive news (2)"

\* C8: on empty input the fundamental scorer (record absent, data mapping
\* missing or empty) and the sentiment scorer (empty news list) return
\* exactly 5.0 with a breakdown of exactly one entry noting the absence.
C8_EmptyInputDefault ==
    /\ (fn = "calculate_fundamental_score" /\ pc = "done"
        /\ DOMAIN C6_Data(args.fundamentals) = {})
           => /\ ret.score = 50
              /\ Len(ret.breakdown) = 1
              /\ Contains("No fundamentals available", ret.breakdown[1].label)
    /\ (fn = "calculate_sentiment_score" /\ pc = "done" /\ args.news = <<>>)
           => /\ ret.score = 50
              /\ Len(ret.breakdown) = 1
              /\ Contains("No news", ret.breakdown[1].label)
    \* the call returns for every empty input: no state is left at "call"
    \* without a step to "done"
    /\ (pc = "call" /\ fn = "calculate_fundamental_score"
        /\ DOMAIN C6_Data(args.fundamentals) = {}) => ENABLED CallFund
    /\ (pc = "call" /\ fn = "calculate_sentiment_score" /\ args.news = <<>>)
           => ENABLED CallSent

\* a record whose data mapping is present and empty has been scored
C8_Witness ==
    /\ fn = "calculate_fundamental_score" /\ pc = "done"
    /\ "data" \in DOMAIN args.fundamentals
    /\ DOMAIN args.fundamentals.data = {}
    /\ ret.score = 50

(***************************************************************************)
(* calculate_confidence_score applied to holdings as the tracker writes    *)
(* them (signals derived from the indicators by get_signal)                *)
(***************************************************************************)
PositiveArticle == [title |-> "NVDA beats", content |-> "AI demand"]
NegativeArticle == [title |-> "Plunge", content |-> "downgrade"]

\* news lists giving every sentiment score from 2 to 8
ConfNews ==
    {<<>>, <<PositiveArticle, NegativeArticle>>}
    \cup {[i \in 1..k |-> PositiveArticle] : k \in 1..3}
    \cup {[i \in 1..k |-> NegativeArticle] : k \in 1..MaxNews}

\* fundamentals records from no record to the best one
ConfFundamentals ==
    {EmptyDict,
     [data |-> [cogs_billions |-> 1]],
     [data |-> [gross_margin_pct |-> 19, eps |-> 0 - 10, eps_guidance |-> 0 - 10]],
     [data |-> [gross_margin_pct |-> 19, eps |-> 10, eps_guidance |-> 8]],
     [data |-> [gross_margin_pct |-> 50, eps |-> 0 - 10, eps_guidance |-> 0 - 11]],
     [data |-> [gross_margin_pct |-> 50]],
     [data |-> [gross_margin_pct |-> 50, operating_income_billions |-> 1]],
     [data |-> [gross_margin_pct |-> 51, revenue_billions |-> 51]],
     [data |-> [gross_margin_pct |-> 61, revenue_billions |-> 51, eps |-> 10]],
     [data |-> [gross_margin_pct |-> 61, revenue_billions |-> 51, eps |-> 10,
                eps_guidance |-> 11, operating_income_billions |-> 1]]}

\* indicator sets from oversold in an uptrend to overbought in a downtrend
ConfIndicators ==
    {Indicators(r, m, t) :
        r \in {280, 299, 349, 350, 500, 620, 700, 701, 751}, m \in {0 - 1, 1},
        t \in {<<3, 2, 1>>, <<1, 2, 3>>, <<3, 2, 2>>, <<2, 2, 2>>}}

Holding(ticker, indicators, news) ==
    [ticker |-> ticker, company |-> ticker, signal |-> get_signal(indicators).signal,
     signals |-> get_signal(indicators).signals, indicators |-> indicators, news |-> news]

InitConf ==
    /\ fn = "calculate_confidence_score"
    /\ args \in {[holding |-> Holding("NVDA", i, n), fundamentals |-> f] :
                    i \in ConfIndicators, n \in ConfNews, f \in ConfFundamentals}
    /\ pc = "call"
    /\ ret = NoRet
    /\ Files

CallConf ==
    /\ fn = "calculate_confidence_score"
    /\ pc = "call"
    /\ pc' = "done"
    /\ ret' = calculate_confidence_score(args.holding, args.fundamentals)
    /\ UNCHANGED <<fn, args, daily_report, fundamentals_dir, synthesis_report>>

NextConf == CallConf

SpecConf == InitConf /\ [][NextConf]_vars

\* the exact weighted sum of three sub-scores (tenths), in thousandths
C1_Exact(t, f, s) == 40 * t + 35 * f + 25 * s

\* C1: the final confidence is technical*0.40 + fundamental*0.35 +
\* sentiment*0.25 rounded to one decimal (a one-decimal value nearest to the
\* exact sum) and lies in [0,10]; sub-scores (10, 0, 0) give 4.0.
C1_WeightedSum ==
    /\ (fn = "calculate_confidence_score" /\ pc = "done")
          => LET b == ret.breakdown
                 exact == C1_Exact(b.technical.score, b.fundamental.score,
                                   b.sentiment.score)
             IN  /\ Abs(100 * ret.confidence - exact) <= 50
                 /\ 0 <= ret.confidence /\ ret.confidence <= 100
    /\ Confidence(100, 0, 0) = 40

\* a verdict whose exact weighted sum is not a one-decimal value:
\* 10*0.40 + 5*0.35 + 6*0.25 = 7.25, returned as 7.2 (the double is 7.25 and
\* round() takes the even neighbour)
C1_Witness ==
    /\ fn = "calculate_confidence_score" /\ pc = "done"
    /\ ret.breakdown.technical.score = 100
    /\ ret.breakdown.fundamental.score = 50
    /\ ret.breakdown.sentiment.score = 60
    /\ ret.confidence = 72

\* the rating, action and reason the claim gives a final confidence of c
\* hundredths
C2_Table(c) ==
    CASE c >= 800             -> <<"A+", "HOLD", "Strong buy/hold signal">>
      [] 700 <= c /\ c < 800  -> <<"A", "HOLD", "Solid position">>
      [] 600 <= c /\ c < 700  -> <<"B+", "HOLD", "Positive, monitor">>
      [] 500 <= c /\ c < 600  -> <<"B", "WATCH", "Neutral, watch for changes">>
      [] 400 <= c /\ c < 500  -> <<"C", "CONSIDER REDUCING", "Caution advised">>
      [] 300 <= c /\ c < 400  -> <<"D", "REDUCE", "Higher risk">>
      [] c < 300              -> <<"F", "SELL", "High risk - consider exit">>

\* C2: rating, action and reason are determined by the final confidence
\* through the closed lower thresholds 8, 7, 6, 5, 4, 3; a final of 7.0 is
\* rated A and the ladder rates 6.99 B+.
C2_RatingLadder ==
    /\ (fn = "calculate_confidence_score" /\ pc = "done")
          => <<ret.rating, ret.action, ret.reason>> = C2_Table(10 * ret.confidence)
    /\ Rating(700).rating = "A"
    /\ Rating(699).rating = "B+"

\* a verdict with final confidence exactly 7.0, rated A
C2_Witness ==
    /\ fn = "calculate_confidence_score" /\ pc = "done"
    /\ ret.confidence = 70
    /\ ret.rating = "A" /\ ret.action = "HOLD"


(***************************************************************************)
(* synthesize_portfolio: the whole portfolio, from the files to the report *)
(***************************************************************************)
MaxHoldings == 3

\* lines 28-33
load_daily_report == IF daily_report.exists THEN daily_report.content ELSE EmptyDict

\* lines 36-42
load_fundamentals(ticker) == Get(fundamentals_dir, ticker, EmptyDict)

\* the sample holdings of lines 307-324 (rsi in tenths, macd_hist in tenths)
SampleHoldings ==
    <<[ticker |-> "NVDA", company |-> "NVIDIA",
       signals |-> <<"RSI_OVERSOLD", "MACD_BULLISH">>,
       indicators |-> [rsi |-> 280, macd_hist |-> 5, price |-> 500,
                       sma_20 |-> 480, sma_50 |-> 450],
       news |-> <<[title |-> "NVDA beats earnings", content |-> "Strong AI demand"]>>],
      [ticker |-> "MSFT", company |-> "Microsoft",
       signals |-> <<"RSI_HIGH", "MACD_BEARISH">>,
       indicators |-> [rsi |-> 720, macd_hist |-> 0 - 2, price |-> 400,
                       sma_20 |-> 390, sma_50 |-> 380],
       news |-> <<[title |-> "MSFT raises guidance", content |-> "Cloud growth strong"]>>]>>

\* the loop with a fundamentals variable that outlives an iteration: a ticker
\* without a file is scored with the record of the holding before it
RECURSIVE AnalyzeCarry(_, _)
AnalyzeCarry(holdings, last) ==
    IF holdings = <<>> THEN <<>>
    ELSE LET holding == Head(holdings)
             ticker  == Get(holding, "ticker", "None")
             fundamentals == IF ticker \in DOMAIN fundamentals_dir
                             THEN fundamentals_dir[ticker] ELSE last
         IN  <<calculate_confidence_score(holding, fundamentals)>>
             \o AnalyzeCarry(Tail(holdings), fundamentals)

AnalyzeMutantSharedState(holdings) == AnalyzeCarry(holdings, EmptyDict)

\* the loop of lines 326-336, reading the fundamentals directory dir
RECURSIVE AnalyzeIn(_, _)
AnalyzeIn(dir, holdings) ==
    IF holdings = <<>> THEN <<>>
    ELSE LET holding == Head(holdings)
             ticker  == Get(holding, "ticker", "None")
         IN  <<calculate_confidence_score(holding, Get(dir, ticker, EmptyDict))>>
             \o AnalyzeIn(dir, Tail(holdings))

Analyze(holdings) == AnalyzeIn(fundamentals_dir, holdings)

\* number of leading verdicts of a descending list that x does not pass
RECURSIVE KeepBeforeMutantUnstable(_, _)
KeepBeforeMutantUnstable(sorted, x) ==
    IF sorted = <<>> \/ Head(sorted).confidence <= x.confidence THEN 0
    ELSE 1 + KeepBeforeMutantUnstable(Tail(sorted), x)

RECURSIVE KeepBefore(_, _)
KeepBefore(sorted, x) ==
    IF sorted = <<>> \/ Head(sorted).confidence < x.confidence THEN 0
    ELSE 1 + KeepBefore(Tail(sorted), x)

\* line 339: list.sort(key=confidence, reverse=True), a stable sort: equal
\* confidences keep the order of the loop
RECURSIVE SortByConfidence(_)
SortByConfidence(results) ==
    IF results = <<>> THEN <<>>
    ELSE Bind(SortByConfidence(SubSeq(results, 1, Len(results) - 1)),
              LAMBDA sorted :
                  LET x == results[Len(results)]
                      k == KeepBefore(sorted, x)
                  IN  SubSeq(sorted, 1, k) \o <<x>> \o SubSeq(sorted, k + 1, Len(sorted)))

\* lines 342-344
IsARatedMutantOpen(r) == r.confidence > 70
IsARated(r) == r.confidence >= 70
IsWatchListMutantClosed(r) == 50 <= r.confidence /\ r.confidence <= 70
IsWatchList(r) == 50 <= r.confidence /\ r.confidence < 70
IsSellCandidateMutantClosed(r) == r.confidence <= 50
IsSellCandidate(r) == r.confidence < 50

\* sum(r["confidence"] for r in results), added left to right from 0
RECURSIVE SumLeftToRight(_)
SumLeftToRight(results) ==
    IF results = <<>> THEN FInt(0)
    ELSE Fadd(SumLeftToRight(SubSeq(results, 1, Len(results) - 1)),
              FLit(100 * results[Len(results)].confidence))

\* the same sum without intermediate rounding: the result of the compensated
\* summation of CPython 3.12 and later
RECURSIVE SumExact(_)
SumExact(results) ==
    IF results = <<>> THEN FInt(0)
    ELSE LET rest == SumExact(SubSeq(results, 1, Len(results) - 1))
             x    == FLit(100 * results[Len(results)].confidence)
         IN  [p |-> rest.p + x.p, e |-> rest.e + x.e, d |-> rest.d]

\* line 354, in tenths: the values the interpreter's sum() can give
AverageConfidence(results) ==
    IF results = <<>> THEN {0}
    ELSE {PyRound1(Fdiv(SumLeftToRight(results), Len(results))),
          PyRound1(Fdiv(Fround(SumExact(results)), Len(results)))}

\* lines 346-359
Synthesis(results, average, now) ==
    LET a_rated         == SelectSeq(results, IsARated)
        watch_list      == SelectSeq(results, IsWatchList)
        sell_candidates == SelectSeq(results, IsSellCandidate)
    IN  [timestamp       |-> now,
         total_holdings  |-> Len(results),
         summary         |-> [a_rated            |-> Len(a_rated),
                              watch_list         |-> Len(watch_list),
                              sell_candidates    |-> Len(sell_candidates),
                              average_confidence |-> average],
         a_rated         |-> a_rated,
         watch_list      |-> watch_list,
         sell_candidates |-> sell_candidates,
         all_holdings    |-> results]

\* holdings of a daily report: one in A, two on the A threshold, one on the
\* watch threshold, one to sell
ReportHoldings ==
    {Holding("NVDA", Indicators(280, 1, <<3, 2, 1>>), <<PositiveArticle>>),
     Holding("MSFT", Indicators(280, 1, <<3, 2, 1>>), <<>>),
     Holding("GOOG", Indicators(280, 1, <<3, 2, 1>>), <<>>),
     Holding("AMD", Indicators(620, 0 - 1, <<3, 2, 2>>), <<>>),
     Holding("META", Indicators(751, 0 - 1, <<1, 2, 3>>),
             <<NegativeArticle, NegativeArticle>>)}

DailyReports ==
    {NoFile, File(EmptyDict)}
    \cup {File([holdings |-> h]) : h \in SeqsUpTo(ReportHoldings, MaxHoldings)}

FundamentalsDirs ==
    {EmptyDict,
     [NVDA |-> [data |-> [gross_margin_pct |-> 61, revenue_billions |-> 51, eps |-> 10]]],
     [AMD  |-> [data |-> EmptyDict],
      META |-> [data |-> [gross_margin_pct |-> 19, eps |-> 10, eps_guidance |-> 8]]],
     [AMD  |-> [data |-> [gross_margin_pct |-> 61, revenue_billions |-> 51, eps |-> 10]],
      META |-> [data |-> [gross_margin_pct |-> 61, revenue_billions |-> 51, eps |-> 10]]]}

\* datetime.now().isoformat()
Timestamps == {"2026-01-05T09:00:00", "2026-01-06T09:00:00"}

InitSynth ==
    /\ fn = "synthesize_portfolio"
    /\ args \in [now : Timestamps]
    /\ pc = "call"
    /\ ret = NoRet
    /\ daily_report \in DailyReports
    /\ fundamentals_dir \in FundamentalsDirs
    /\ synthesis_report = NoFile

\* lines 299-368
SynthesizePortfolio ==
    /\ fn = "synthesize_portfolio"
    /\ pc = "call"
    /\ LET report   == load_daily_report
           listed   == Get(report, "holdings", <<>>)
           holdings == IF listed = <<>> THEN SampleHoldings ELSE listed
       IN  \E analyzed \in {Analyze(holdings)} :
           \E results \in {SortByConfidence(analyzed)} :
           \E average \in AverageConfidence(results) :
               /\ ret' = Synthesis(results, average, args.now)
               /\ synthesis_report' = File(ret')
    /\ pc' = "done"
    /\ UNCHANGED <<fn, args, daily_report, fundamentals_dir>>

NextSynth == SynthesizePortfolio

SpecSynth == InitSynth /\ [][NextSynth]_vars

\* the number of the three buckets that hold the verdict r
C3_BucketsHolding(s, r) ==
    Cardinality({b \in {"a_rated", "watch_list", "sell_candidates"} :
                    \E i \in 1..Len(s[b]) : s[b][i] = r})

\* C3: in every output of synthesize_portfolio the buckets a_rated
\* (confidence >= 7), watch_list (5 <= confidence < 7) and sell_candidates
\* (confidence < 5) are pairwise disjoint, every holding of all_holdings is
\* in exactly one of them, and the three summary counts add up to
\* total_holdings.
C3_BucketPartition ==
    (fn = "synthesize_portfolio" /\ pc = "done") =>
        /\ \A i \in 1..Len(ret.a_rated) : ret.a_rated[i].confidence >= 70
        /\ \A i \in 1..Len(ret.watch_list) :
               50 <= ret.watch_list[i].confidence /\ ret.watch_list[i].confidence < 70
        /\ \A i \in 1..Len(ret.sell_candidates) : ret.sell_candidates[i].confidence < 50
        /\ \A i \in 1..Len(ret.all_holdings) :
               C3_BucketsHolding(ret, ret.all_holdings[i]) = 1
        /\ \A b \in {"a_rated", "watch_list", "sell_candidates"} :
               \A i \in 1..Len(ret[b]) : C3_BucketsHolding(ret, ret[b][i]) = 1
        /\ Len(ret.a_rated) + Len(ret.watch_list) + Len(ret.sell_candidates)
               = Len(ret.all_holdings)
        /\ ret.summary.a_rated + ret.summary.watch_list + ret.summary.sell_candidates
               = ret.total_holdings
        /\ ret.total_holdings = Len(ret.all_holdings)
        /\ synthesis_report = File(ret)

\* a report of three holdings, one in each bucket, two of them on a
\* threshold (7.0 and 5.0)
C3_Witness ==
    /\ fn = "synthesize_portfolio" /\ pc = "done"
    /\ ret.total_holdings = 3
    /\ Len(ret.a_rated) = 1 /\ ret.a_rated[1].confidence = 70
    /\ Len(ret.watch_list) = 1 /\ ret.watch_list[1].confidence = 50
    /\ Len(ret.sell_candidates) = 1


\* the risk factors the claim lists, each with its condition, in its order
C13_Risks(rsi, fund_score, sent_score) ==
    <<[on |-> rsi > 700, text |-> "RSI overbought"],
      [on |-> rsi < 350, text |-> "RSI oversold - potential trap"],
      [on |-> fund_score < 40, text |-> "Weak fundamentals"],
      [on |-> sent_score < 40, text |-> "Negative sentiment"]>>

C13_On(risk) == risk.on

\* the texts of the factors whose condition holds, joined by ", "
RECURSIVE C13_Joined(_)
C13_Joined(risks) ==
    IF risks = <<>> THEN ""
    ELSE IF Len(risks) = 1 THEN risks[1].text
    ELSE risks[1].text \o ", " \o C13_Joined(Tail(risks))

\* C13: the suggestion is "Hold {ticker} - {reason}" iff the final confidence
\* is >= 5; otherwise it is "Consider reducing {ticker} position. Risk
\* factors: " followed by the comma-joined list, in this order, of "RSI
\* overbought" (rsi > 70), "RSI oversold - potential trap" (rsi < 35), "Weak
\* fundamentals" (fundamental score < 4), "Negative sentiment" (sentiment
\* score < 4).
C13_SuggestionText ==
    (fn = "calculate_confidence_score" /\ pc = "done")
        => LET rsi  == Get(Get(args.holding, "indicators", EmptyDict), "rsi", 500)
               hold == "Hold " \o ret.ticker \o " - " \o ret.reason
               reduce == "Consider reducing " \o ret.ticker
                         \o " position. Risk factors: "
                         \o C13_Joined(SelectSeq(
                                C13_Risks(rsi, ret.breakdown.fundamental.score,
                                          ret.breakdown.sentiment.score), C13_On))
           IN  /\ (ret.confidence >= 50) <=> (ret.suggestion = hold)
               /\ (ret.confidence < 50) <=> (ret.suggestion = reduce)

\* a low verdict with rsi exactly 70: not overbought, two other factors
C13_Witness ==
    /\ fn = "calculate_confidence_score" /\ pc = "done"
    /\ args.holding.indicators.rsi = 700
    /\ ret.confidence < 50
    /\ ret.suggestion = "Consider reducing NVDA position. Risk factors: "
                        \o "Weak fundamentals, Negative sentiment"


(***************************************************************************)
(* Ranking, empty portfolio and the sample scenario of synthesize_portfolio*)
(***************************************************************************)
\* the holdings list a run scores: lines 304-324
ScoredHoldings ==
    LET listed == Get(load_daily_report, "holdings", <<>>)
    IN  IF listed = <<>> THEN SampleHoldings ELSE listed

\* the tickers of a list of holdings or verdicts, in list order
C14_Tickers(items) == [i \in 1..Len(items) |-> items[i].ticker]

\* C14: all_holdings is sorted by final confidence in non-increasing order,
\* and holdings of equal confidence keep the relative order of the input
\* holdings list.
C14_RankedStable ==
    (fn = "synthesize_portfolio" /\ pc = "done")
        => LET out == ret.all_holdings
               ConfOf(t) == (CHOOSE i \in 1..Len(out) : out[i].ticker = t)
           IN  /\ Len(out) = Len(ScoredHoldings)
               /\ \A i, j \in 1..Len(out) :
                      i < j => out[i].confidence >= out[j].confidence
               /\ \A c \in {out[i].confidence : i \in 1..Len(out)} :
                      C14_Tickers(SelectSeq(out, LAMBDA r : r.confidence = c))
                          = C14_Tickers(SelectSeq(ScoredHoldings,
                                LAMBDA h : out[ConfOf(h.ticker)].confidence = c))

\* two holdings of equal confidence, GOOG listed before MSFT, ranked below a
\* holding listed after them
C14_Witness ==
    /\ fn = "synthesize_portfolio" /\ pc = "done"
    /\ C14_Tickers(ScoredHoldings) = <<"GOOG", "MSFT", "NVDA">>
    /\ C14_Tickers(ret.all_holdings) = <<"NVDA", "GOOG", "MSFT">>
    /\ ret.all_holdings[2].confidence = ret.all_holdings[3].confidence


\* the report names no holding: the file is missing, has no holdings key, or
\* has an empty holdings list
ZeroHoldings == Get(load_daily_report, "holdings", <<>>) = <<>>

\* C15: with zero holdings synthesize_portfolio returns a synthesis with
\* total_holdings 0, three empty buckets and average_confidence 0.
C15_ZeroHoldings ==
    (fn = "synthesize_portfolio" /\ pc = "done" /\ ZeroHoldings)
        => /\ ret.total_holdings = 0
           /\ ret.a_rated = <<>> /\ ret.watch_list = <<>> /\ ret.sell_candidates = <<>>
           /\ ret.all_holdings = <<>>
           /\ ret.summary.average_confidence = 0

\* C16: the holding with indicators {rsi 28, macd_hist 0.5, price 500,
\* sma_20 480, sma_50 450}, signals [RSI_OVERSOLD, MACD_BULLISH], empty
\* fundamentals and one news item containing "beats earnings" has the
\* technical raw sum 5+3+1+2+1 = 12 clamped to 10.0, the +3 RSI band entry
\* and the +1 RSI_OVERSOLD tag entry listed separately and no entry for the
\* MACD_BULLISH tag, fundamental 5.0, sentiment 6.0, weighted sum 7.25,
\* rating A with action HOLD, and is placed in a_rated.
C16_SampleScenario ==
    (fn = "synthesize_portfolio" /\ pc = "done"
     /\ ScoredHoldings = SampleHoldings /\ "NVDA" \notin DOMAIN fundamentals_dir)
        => \E i \in 1..Len(ret.a_rated) :
               LET v == ret.a_rated[i]
                   t == v.breakdown.technical
               IN  /\ v.ticker = "NVDA"
                   /\ Deltas(t.details) = <<30, 10, 20, 10>>
                   /\ 50 + SumSeq(Deltas(t.details)) = 120
                   /\ t.score = 100
                   /\ Contains("RSI oversold", t.details[1].label)
                   /\ t.details[4].label = "RSI_OVERSOLD"
                   /\ \A k \in 1..Len(t.details) : t.details[k].label # "MACD_BULLISH"
                   /\ v.breakdown.fundamental.score = 50
                   /\ v.breakdown.sentiment.score = 60
                   /\ Weighted(t.score, v.breakdown.fundamental.score,
                               v.breakdown.sentiment.score)
                          = [p |-> 7250, e |-> 0, d |-> 1000]
                   /\ v.rating = "A" /\ v.action = "HOLD"
                   /\ \A k \in 1..Len(ret.watch_list) : ret.watch_list[k].ticker # "NVDA"
                   /\ \A k \in 1..Len(ret.sell_candidates) :
                          ret.sell_candidates[k].ticker # "NVDA"

\* the scenario has run: the sample holding is scored without fundamentals
\* and its weighted sum 7.25 is returned as the confidence 7.2
C16_Witness ==
    /\ fn = "synthesize_portfolio" /\ pc = "done"
    /\ ScoredHoldings = SampleHoldings /\ fundamentals_dir = EmptyDict
    /\ ret.a_rated[1].ticker = "NVDA"
    /\ ret.a_rated[1].confidence = 72


\* the number of times v occurs in a list
C17_Count(items, v) == Cardinality({i \in 1..Len(items) : items[i] = v})

\* two lists with the same elements, each as many times
C17_SameBag(a, b) ==
    /\ Len(a) = Len(b)
    /\ \A i \in 1..Len(a) : C17_Count(a, a[i]) = C17_Count(b, a[i])

\* the verdict of one holding scored on its own
C17_Alone(holding) == calculate_confidence_score(holding, load_fundamentals(holding.ticker))

\* the verdicts of a run over the holdings list in reverse order
C17_Reversed ==
    LET n == Len(ScoredHoldings)
    IN  SortByConfidence(Analyze([i \in 1..n |-> ScoredHoldings[n + 1 - i]]))

\* C17: the verdict of a holding depends only on its own indicators, signals,
\* news and fundamentals record: the verdicts of a run are the verdicts of
\* its holdings scored one by one, whatever the list order, and so are the
\* members of the three buckets and the summary counts; a run over the
\* reversed list gives the same verdicts, buckets and counts.
C17_OrderIndependent ==
    (fn = "synthesize_portfolio" /\ pc = "done")
        => \E alone \in {[i \in 1..Len(ScoredHoldings) |-> C17_Alone(ScoredHoldings[i])]} :
           \E reversed \in {C17_Reversed} :
               /\ C17_SameBag(ret.all_holdings, alone)
               /\ C17_SameBag(ret.a_rated, SelectSeq(alone, LAMBDA v : v.confidence >= 70))
               /\ C17_SameBag(ret.watch_list,
                              SelectSeq(alone, LAMBDA v : 50 <= v.confidence /\ v.confidence < 70))
               /\ C17_SameBag(ret.sell_candidates, SelectSeq(alone, LAMBDA v : v.confidence < 50))
               /\ C17_SameBag(ret.all_holdings, reversed)
               /\ C17_SameBag(ret.a_rated, SelectSeq(reversed, IsARated))
               /\ C17_SameBag(ret.watch_list, SelectSeq(reversed, IsWatchList))
               /\ C17_SameBag(ret.sell_candidates, SelectSeq(reversed, IsSellCandidate))
               /\ ret.summary.a_rated = Len(SelectSeq(reversed, IsARated))
               /\ ret.summary.watch_list = Len(SelectSeq(reversed, IsWatchList))
               /\ ret.summary.sell_candidates = Len(SelectSeq(reversed, IsSellCandidate))

\* a list scored after a holding with a fundamentals file: NVDA has a record,
\* MSFT and META behind it have none
C17_Witness ==
    /\ fn = "synthesize_portfolio" /\ pc = "done"
    /\ C14_Tickers(ScoredHoldings) = <<"NVDA", "META", "MSFT">>
    /\ DOMAIN fundamentals_dir = {"NVDA"}
    /\ C14_Tickers(ret.all_holdings) = <<"NVDA", "MSFT", "META">>


(***************************************************************************)
(* run_full_analysis: technical analysis, fundamental extraction, charts   *)
(* and synthesis in one run; tracker.py run as a script                    *)
(***************************************************************************)
MaxRunHoldings == 2

\* src/run_full_analysis.py lines 53-65
IsRsiAlert(h) ==
    LET rsi == Get(Get(h, "indicators", EmptyDict), "rsi", 500)
    IN  rsi > 650 \/ rsi < 350

RsiAlert(h) ==
    [ticker |-> h.ticker, company |-> h.company, signal |-> Get(h, "signal", ""),
     rsi |-> Get(Get(h, "indicators", EmptyDict), "rsi", 500)]

find_rsi_alerts(holdings) ==
    LET alerts == SelectSeq(holdings, IsRsiAlert)
    IN  [i \in 1..Len(alerts) |-> RsiAlert(alerts[i])]

\* what can happen inside extract_fundamentals: the search returns an error
\* (line 243), a callee raises, the PDF text is empty (line 263), the search
\* falls back to the SEC page (line 266), the parse finds nothing or finds
\* metrics (line 260)
Outcomes == {"search_error", "raises", "pdf_extract_failed", "sec_fallback",
             "parsed_empty", "success"}

\* the metrics parse_financials finds in a report
ParsedMetrics == [revenue_billions |-> 51, gross_margin_pct |-> 61, eps |-> 10]

\* d[key] = value on a dict
SetKey(d, key, value) ==
    [k \in DOMAIN d \cup {key} |-> IF k = key THEN value ELSE d[k]]

\* what search_ir_pdf returns (lines 40-80): an error, a PDF link or an
\* investor page found by the search, or the SEC fallback
SearchResults ==
    {[error |-> "No Tavily API key"],
     [url |-> "https://ir.co/10-K.PDF", title |-> "10-K", source |-> "tavily"],
     [url |-> "https://co/investor", title |-> "IR", source |-> "tavily"],
     [url |-> "https://www.sec.gov/cgi-bin/browse-edgar", title |-> "SEC EDGAR",
      source |-> "sec"]}

\* what extract_text_from_pdf returns (lines 83-120): "" when it fails
PdfTexts == {"", "Revenue: 51 billion"}

\* what parse_financials returns (lines 123-224)
MetricsFound == {EmptyDict, ParsedMetrics}

ReturnsBeforeSaveMutantNever(search_result) == FALSE

\* line 243: the search failed, the function returns at line 246
ReturnsBeforeSave(search_result) == "error" \in DOMAIN search_result

\* line 252
IsTavilyPdf(search_result) ==
    Get(search_result, "source", "None") = "tavily"
        /\ Contains(".pdf", Lower(Get(search_result, "url", "")))

\* extract_fundamentals, lines 227-273: the result dict of a call that
\* returns, given what the search, the PDF download and the parse give
extract_fundamentals(ticker, company_name, signal, search_result, text, metrics, now) ==
    LET result == [ticker |-> ticker, company |-> company_name,
                   signal_trigger |-> signal, timestamp |-> now,
                   data |-> EmptyDict, status |-> "pending"]
    IN  IF "error" \in DOMAIN search_result
        THEN SetKey([result EXCEPT !.status = "error"], "error", search_result.error)
        ELSE Bind(SetKey(SetKey(result, "source_url", Get(search_result, "url", "None")),
                         "source", Get(search_result, "source", "None")),
                  LAMBDA found :
                      IF IsTavilyPdf(search_result)
                      THEN IF text # ""
                           THEN [found EXCEPT !.data = metrics,
                                              !.status = IF DOMAIN metrics # {}
                                                         THEN "success"
                                                         ELSE "parsed_empty"]
                           ELSE [found EXCEPT !.status = "pdf_extract_failed"]
                      ELSE [found EXCEPT !.status = "sec_fallback"])

\* what the search, the download and the parse give in each outcome
OutcomeWorld(outcome) ==
    LET pdf == [url |-> "https://ir.co/10-K.PDF", title |-> "10-K", source |-> "tavily"]
    IN  IF outcome \in {"search_error", "raises"}
        THEN [search |-> [error |-> "No Tavily API key"], text |-> "", metrics |-> EmptyDict]
        ELSE IF outcome = "sec_fallback"
        THEN [search |-> [url |-> "https://www.sec.gov/cgi-bin/browse-edgar",
                          title |-> "SEC EDGAR", source |-> "sec"],
              text |-> "", metrics |-> EmptyDict]
        ELSE IF outcome = "pdf_extract_failed"
        THEN [search |-> pdf, text |-> "", metrics |-> EmptyDict]
        ELSE IF outcome = "parsed_empty"
        THEN [search |-> pdf, text |-> "Revenue: 51 billion", metrics |-> EmptyDict]
        ELSE [search |-> pdf, text |-> "Revenue: 51 billion", metrics |-> ParsedMetrics]

\* the result dict of the call for an alert in the given outcome
ExtractResult(alert, outcome, now) ==
    Bind(OutcomeWorld(outcome),
         LAMBDA world : extract_fundamentals(alert.ticker, alert.company, alert.signal,
                                             world.search, world.text, world.metrics, now))

\* the fundamentals directory after the call: the result is saved (lines
\* 268-270) unless the search failed (return at line 246) or the call raised
ExtractSave(dir, alert, outcome, now) ==
    IF outcome \in {"search_error", "raises"} THEN dir
    ELSE [t \in DOMAIN dir \cup {alert.ticker} |->
             IF t = alert.ticker THEN ExtractResult(alert, outcome, now) ELSE dir[t]]

\* the loop of run_full_analysis lines 93-101: the directory after it
RECURSIVE ExtractAll(_, _, _, _)
ExtractAll(dir, alerts, outcome, now) ==
    IF alerts = <<>> THEN dir
    ELSE ExtractAll(ExtractSave(dir, Head(alerts), outcome, now), Tail(alerts), outcome, now)

\* fundamentals_extracted, lines 98-99
Extracted(alerts, outcome) ==
    IF outcome = "success" THEN [i \in 1..Len(alerts) |-> alerts[i].ticker] ELSE <<>>

\* what synthesize_portfolio returns when it finds the daily report file
\* report_file and the fundamentals directory dir
SynthesisOutcomes(report_file, dir, now) ==
    LET report   == IF report_file.exists THEN report_file.content ELSE EmptyDict
        listed   == Get(report, "holdings", <<>>)
        holdings == IF listed = <<>> THEN SampleHoldings ELSE listed
    IN  UNION {{Synthesis(results, average, now) : average \in AverageConfidence(results)} :
                  results \in {SortByConfidence(AnalyzeIn(dir, holdings))}}

\* holdings analyze_portfolio produces: two with an RSI alert, one without
RunHoldings ==
    {Holding("NVDA", Indicators(280, 1, <<3, 2, 1>>), <<PositiveArticle>>),
     Holding("AMD", Indicators(620, 0 - 1, <<3, 2, 2>>), <<>>),
     Holding("META", Indicators(751, 0 - 1, <<1, 2, 3>>),
             <<NegativeArticle, NegativeArticle>>)}

\* daily_report.json as an earlier run of tracker.py left it
EarlierReports ==
    {NoFile, File([holdings |-> <<>>])} \cup {File([holdings |-> <<h>>]) : h \in RunHoldings}

\* the fundamentals directory as earlier runs left it
EarlierFundamentalsDirs ==
    {EmptyDict,
     [NVDA |-> [ticker |-> "NVDA", status |-> "success",
                data |-> [gross_margin_pct |-> 19, eps |-> 10, eps_guidance |-> 8]]],
     [META |-> [ticker |-> "META", status |-> "success", data |-> ParsedMetrics]]}

InitFull ==
    /\ fn \in {"run_full_analysis", "tracker_main"}
    /\ args \in [technical : SeqsUpTo(RunHoldings, MaxRunHoldings),
                 outcome : Outcomes, now : {"2026-01-06T09:00:00"}]
    /\ pc = "call"
    /\ ret = NoRet
    /\ daily_report \in EarlierReports
    /\ fundamentals_dir \in EarlierFundamentalsDirs
    /\ synthesis_report = NoFile

\* src/run_full_analysis.py lines 68-147.  analyze_portfolio returns the
\* report of this run (args.technical) and writes portfolio_split.json only
RunFullAnalysis ==
    /\ fn = "run_full_analysis"
    /\ pc = "call"
    /\ pc' = "done"
    /\ UNCHANGED <<fn, args, daily_report>>
    /\ LET report     == [holdings |-> args.technical]
           holdings   == Get(report, "holdings", <<>>)
           rsi_alerts == find_rsi_alerts(holdings)
       IN  \E dir \in {ExtractAll(fundamentals_dir, rsi_alerts, args.outcome, args.now)} :
           \E synthesis \in SynthesisOutcomes(daily_report, dir, args.now) :
           \E visual \in {"success", "error"} :
                  /\ fundamentals_dir' = dir
                  /\ synthesis_report' = File(synthesis)
                  /\ ret' = [timestamp |-> args.now,
                             steps |-> [technical |-> [status |-> "success",
                                                       holdings_count |-> Len(holdings)],
                                        fundamentals |-> [status |-> "success",
                                                          alerts_found |-> Len(rsi_alerts),
                                                          extracted |-> Extracted(rsi_alerts, args.outcome)],
                                        visual |-> [status |-> visual],
                                        synthesis |-> [status |-> "success",
                                                       average_confidence |-> synthesis.summary.average_confidence,
                                                       a_rated |-> synthesis.summary.a_rated,
                                                       sell_candidates |-> synthesis.summary.sell_candidates]]]

\* src/tracker.py lines 503-509: the script saves its report
TrackerMain ==
    /\ fn = "tracker_main"
    /\ pc = "call"
    /\ pc' = "done"
    /\ daily_report' = File([holdings |-> args.technical])
    /\ ret' = [holdings |-> args.technical]
    /\ UNCHANGED <<fn, args, fundamentals_dir, synthesis_report>>

NextFull == RunFullAnalysis \/ TrackerMain

SpecFull == InitFull /\ [][NextFull]_vars

\* C18: in one run of run_full_analysis the holdings the synthesis step
\* scores are exactly the holdings, with their indicators, signals and news,
\* that the technical-analysis step of the same run produced, never the
\* holdings of an earlier run or the built-in sample holdings.
C18_FreshHoldings ==
    (fn = "run_full_analysis" /\ pc = "done")
        => C17_SameBag(synthesis_report.content.all_holdings,
                       [i \in 1..Len(args.technical) |-> C17_Alone(args.technical[i])])

\* the outcomes of extract_fundamentals the claim calls a failure
C19_Failures == {"search_error", "raises", "pdf_extract_failed"}

\* C19: if fundamental extraction for a ticker fails in a run, the synthesis
\* step of that run treats the ticker's fundamentals as missing input and
\* gives it the fundamental score 5.0, whatever an earlier run stored.
C19_FailedExtractionIsMissing ==
    (fn = "run_full_analysis" /\ pc = "done" /\ args.outcome \in C19_Failures)
        => \A i \in 1..Len(args.technical) :
               IsRsiAlert(args.technical[i]) =>
                   LET ticker == args.technical[i].ticker
                       scored == synthesis_report.content.all_holdings
                   IN  \A k \in 1..Len(scored) :
                           scored[k].ticker = ticker
                               => scored[k].breakdown.fundamental.score = 50

\* ---- format_synthesis_message (skills/synthesis_agent/main.py) ----
\* The emoji and the bullet glyph of the source's literals are written in
\* ASCII: ":dart:", ":green_circle:", ":yellow_circle:", ":red_circle:", "-".

MaxMessageHoldings == 8

\* str() of a float that has one decimal, the value given in tenths
FloatText(c) == ToString(c \div 10) \o "." \o ToString(c % 10)

\* line 379: the average is the int 0 of line 354 when nothing was scored
AverageText(synthesis) ==
    IF synthesis.all_holdings = <<>> THEN "0"
    ELSE FloatText(synthesis.summary.average_confidence)

TakeMutantAll(seq, n) == seq

\* seq[:n]
Take(seq, n) == SubSeq(seq, 1, IF Len(seq) < n THEN Len(seq) ELSE n)

\* "\n".join(lines)
RECURSIVE JoinLines(_)
JoinLines(lines) ==
    IF lines = <<>> THEN ""
    ELSE IF Len(lines) = 1 THEN lines[1]
    ELSE lines[1] \o "\n" \o JoinLines(Tail(lines))

\* line 387
StrongHoldLine(h) ==
    "- **" \o h.ticker \o "** (" \o h.rating \o ") - Confidence: "
        \o FloatText(h.confidence) \o "/10"

\* line 394
SellLine(h) ==
    "- **" \o h.ticker \o "** (" \o h.rating \o ") - " \o h.suggestion

\* lines 371-397
format_synthesis_message(synthesis) ==
    LET summary == synthesis.summary
        shown   == Take(synthesis.a_rated, 5)
        sells   == synthesis.sell_candidates
    IN  JoinLines(
            <<":dart: **PORTFOLIO CONFIDENCE ANALYSIS**",
              "",
              "**Overall Score:** " \o AverageText(synthesis) \o "/10",
              ":green_circle: A-Rated: " \o ToString(summary.a_rated)
                  \o " | :yellow_circle: Watch: " \o ToString(summary.watch_list)
                  \o " | :red_circle: Sell: " \o ToString(summary.sell_candidates),
              "">>
            \o (IF synthesis.a_rated # <<>>
                THEN <<"**:green_circle: STRONG HOLDS:**">>
                     \o [i \in 1..Len(shown) |-> StrongHoldLine(shown[i])]
                     \o <<"">>
                ELSE <<>>)
            \o (IF sells # <<>>
                THEN <<"**:red_circle: SELL CONSIDERATION:**">>
                     \o [i \in 1..Len(sells) |-> SellLine(sells[i])]
                     \o <<"">>
                ELSE <<>>))

\* holdings of a report to format: to sell, to watch, and two A-rated ones
MessageHoldings ==
    <<Holding("META", Indicators(751, 0 - 1, <<1, 2, 3>>),
              <<NegativeArticle, NegativeArticle>>),
      Holding("AMD", Indicators(620, 0 - 1, <<3, 2, 2>>), <<>>),
      Holding("MSFT", Indicators(280, 1, <<3, 2, 1>>), <<>>),
      Holding("NVDA", Indicators(280, 1, <<3, 2, 1>>), <<PositiveArticle>>)>>

\* a daily report that lists MessageHoldings[k] counts[k] times
Listed(counts) ==
    LET Repeat(k) == [i \in 1..counts[k] |-> MessageHoldings[k]]
    IN  Repeat(1) \o Repeat(2) \o Repeat(3) \o Repeat(4)

MessageCounts ==
    {counts \in [1..4 -> 0..MaxMessageHoldings] :
        LET total == counts[1] + counts[2] + counts[3] + counts[4]
        IN  1 <= total /\ total <= MaxMessageHoldings}

\* the argument is a synthesis that synthesize_portfolio returned
InitMessage ==
    /\ fn = "format_synthesis_message"
    /\ pc = "call"
    /\ ret = NoRet
    /\ daily_report = NoFile
    /\ fundamentals_dir = EmptyDict
    /\ synthesis_report = NoFile
    /\ \E counts \in MessageCounts :
       \E analyzed \in {AnalyzeIn(EmptyDict, Listed(counts))} :
       \E results \in {SortByConfidence(analyzed)} :
       \E average \in AverageConfidence(results) :
           args = [synthesis |-> Synthesis(results, average,
                                           "2026-01-05T09:00:00")]

\* lines 371-397
FormatSynthesisMessage ==
    /\ fn = "format_synthesis_message"
    /\ pc = "call"
    /\ ret' = format_synthesis_message(args.synthesis)
    /\ pc' = "done"
    /\ UNCHANGED <<fn, args, daily_report, fundamentals_dir, synthesis_report>>

NextMessage == FormatSynthesisMessage

SpecMessage == InitMessage /\ [][NextMessage]_vars

\* the positions of the line breaks of a text
C20_Breaks(text) == {i \in 1..Len(text) : SubSeq(text, i, i) = "\n"}

\* the lines of a text
C20_Split(text) ==
    LET breaks == C20_Breaks(text)
        n      == Cardinality(breaks)
        cut(k) == IF k = 0 THEN 0
                  ELSE IF k = n + 1 THEN Len(text) + 1
                  ELSE CHOOSE p \in breaks :
                           Cardinality({q \in breaks : q < p}) = k - 1
    IN  [k \in 1..(n + 1) |-> SubSeq(text, cut(k - 1) + 1, cut(k) - 1)]

C20_IsBullet(line) == Len(line) >= 4 /\ SubSeq(line, 1, 4) = "- **"

C20_IsStrongLine(line) == C20_IsBullet(line) /\ Contains(") - Confidence: ", line)

C20_IsSellLine(line) == C20_IsBullet(line) /\ ~Contains(") - Confidence: ", line)

C20_Has(lines, line) == \E k \in 1..Len(lines) : lines[k] = line

C20_MessageOf(synthesis, lines) ==
    LET a_rated == synthesis.a_rated
        sells   == synthesis.sell_candidates
        watch   == synthesis.watch_list
        shown   == IF Len(a_rated) < 5 THEN Len(a_rated) ELSE 5
    IN  /\ SelectSeq(lines, C20_IsStrongLine)
              = [i \in 1..shown |->
                    "- **" \o a_rated[i].ticker \o "** (" \o a_rated[i].rating
                        \o ") - Confidence: "
                        \o ToString(a_rated[i].confidence \div 10) \o "."
                        \o ToString(a_rated[i].confidence % 10) \o "/10"]
        /\ SelectSeq(lines, C20_IsSellLine)
              = [i \in 1..Len(sells) |->
                    "- **" \o sells[i].ticker \o "** (" \o sells[i].rating
                        \o ") - " \o sells[i].suggestion]
        /\ \A i \in 1..Len(watch) : \A k \in 1..Len(lines) :
               ~Contains("**" \o watch[i].ticker \o "**", lines[k])
        /\ C20_Has(lines, "**Overall Score:** "
                      \o ToString(synthesis.summary.average_confidence \div 10)
                      \o "."
                      \o ToString(synthesis.summary.average_confidence % 10)
                      \o "/10")
        /\ C20_Has(lines, ":green_circle: A-Rated: " \o ToString(Len(a_rated))
                      \o " | :yellow_circle: Watch: " \o ToString(Len(watch))
                      \o " | :red_circle: Sell: " \o ToString(Len(sells)))
        /\ C20_Has(lines, "**:green_circle: STRONG HOLDS:**") <=> a_rated # <<>>
        /\ C20_Has(lines, "**:red_circle: SELL CONSIDERATION:**") <=> sells # <<>>

\* C20: the message of format_synthesis_message lists the first five a_rated
\* holdings in their ranked order with their confidence, lists every sell
\* candidate with its rating and suggestion, lists no watch_list holding,
\* shows the average confidence and the three bucket counts, and has a
\* section header exactly for the sections whose bucket is not empty.
C20_MessageContents ==
    (fn = "format_synthesis_message" /\ pc = "done")
        => C20_MessageOf(args.synthesis, C20_Split(ret))

\* a message for more than five A-rated holdings of different confidence,
\* with a holding to watch and a holding to sell
C20_Witness ==
    /\ fn = "format_synthesis_message"
    /\ pc = "done"
    /\ Len(args.synthesis.a_rated) > 5
    /\ args.synthesis.a_rated[1].confidence # args.synthesis.a_rated[6].confidence
    /\ args.synthesis.watch_list # <<>>
    /\ args.synthesis.sell_candidates # <<>>
    /\ Contains("STRONG HOLDS", ret)

(***************************************************************************)
(* Vote tallies of get_signal                                              *)
(***************************************************************************)
\* C22: in every tag list that get_signal returns, each tag is counted by
\* exactly one of the two vote tallies of lines 283-284, never by both and
\* never by neither, so the bullish votes and the bearish votes add up to
\* the number of tags.
C22_EachTagVotesOnce ==
    (fn = "get_signal" /\ pc = "done")
        => /\ \A i \in 1..Len(ret.signals) :
                  BullishVote(ret.signals[i]) # BearishVote(ret.signals[i])
           /\ Len(SelectSeq(ret.signals, BullishVote))
                  + Len(SelectSeq(ret.signals, BearishVote)) = Len(ret.signals)

\* three tags, two bullish votes (RSI_LOW, BULLISH_TREND) and a bearish one
C22_Witness ==
    /\ fn = "get_signal" /\ pc = "done"
    /\ ret.signals = <<"RSI_LOW", "MACD_BEARISH", "BULLISH_TREND">>
    /\ ret.signal = "BULLISH"

(***************************************************************************)
(* analyze_portfolio (tracker.py)                                          *)
(***************************************************************************)
MaxPositions == 3

\* lines 33-42
STOCKS ==
    <<"MSFT", "NVDA", "META", "GOOGL", "AMD", "ASML", "AVGO", "AMZN", "UBER",
      "ORCL", "TTD", "NWG", "BARC", "CELH", "NBIS", "ZENA", "ALT", "VUSA",
      "VFEM", "COPX">>

\* lines 347-355
company_names ==
    [MSFT |-> "Microsoft", NVDA |-> "NVIDIA", META |-> "Meta Facebook",
     GOOGL |-> "Alphabet Google", AMD |-> "AMD", ASML |-> "ASML",
     AVGO |-> "Broadcom", AMZN |-> "Amazon", UBER |-> "Uber",
     ORCL |-> "Oracle", TTD |-> "Trade Desk", NWG |-> "NatWest",
     BARC |-> "Barclays", CELH |-> "Celsius Holdings", NBIS |-> "Nebius",
     ZENA |-> "ZenaTech", ALT |-> "Altimmune", VUSA |-> "Vanguard S&P 500",
     VFEM |-> "Vanguard EM", COPX |-> "Copper Miners"]

\* the None that get_technical_indicators returns for a short or empty
\* history and for any exception (lines 198-199, 245-247)
NoIndicators == EmptyDict

NotIndicatorsMutantNever(indicators) == FALSE

\* line 366: not indicators
NotIndicators(indicators) == DOMAIN indicators = {}

\* lines 319-335, the fields the loop fills
EmptyReport(now) ==
    [timestamp |-> now,
     holdings  |-> <<>>,
     summary   |-> [total |-> 0, bullish |-> 0, bearish |-> 0, neutral |-> 0]]

\* lines 375-390
HoldingData(ticker, indicators, news, holding) ==
    [ticker      |-> ticker,
     company     |-> Get(company_names, ticker, ticker),
     signal      |-> get_signal(indicators).signal,
     signals     |-> get_signal(indicators).signals,
     indicators  |-> indicators,
     news        |-> news,
     quantity    |-> Get(holding, "quantity", 0),
     total_value |-> Get(holding, "total_value", 0)]

\* lines 392-394
AddHolding(report, holding_data) ==
    [report EXCEPT !.holdings = Append(@, holding_data),
                   !.summary[Lower(holding_data.signal)] = @ + 1,
                   !.summary.total = @ + 1]

\* the for loop of lines 362-394 over the tickers that are left
RECURSIVE AnalyzeTickers(_, _, _, _)
AnalyzeTickers(tickers, market, holding_map, report) ==
    IF tickers = <<>> THEN report
    ELSE LET ticker == Head(tickers)
         IN  IF NotIndicators(market[ticker].indicators)
             THEN AnalyzeTickers(Tail(tickers), market, holding_map, report)
             ELSE Bind(AddHolding(report,
                                  HoldingData(ticker, market[ticker].indicators,
                                              market[ticker].news,
                                              Get(holding_map, ticker, EmptyDict))),
                       LAMBDA next :
                           AnalyzeTickers(Tail(tickers), market, holding_map, next))

\* line 341
TickersToAnalyze(all_holdings) ==
    IF all_holdings # <<>>
    THEN [i \in 1..Len(all_holdings) |-> all_holdings[i].ticker]
    ELSE STOCKS

\* line 344
HoldingMap(all_holdings) ==
    [t \in {all_holdings[i].ticker : i \in 1..Len(all_holdings)} |->
        LET i == CHOOSE j \in 1..Len(all_holdings) : all_holdings[j].ticker = t
        IN  all_holdings[i]]

\* lines 309-415, the report returned
analyze_portfolio(all_holdings, market, now) ==
    AnalyzeTickers(TickersToAnalyze(all_holdings), market,
                   HoldingMap(all_holdings), EmptyReport(now))

\* tickers of the account's positions; VOD is not in company_names
PositionTickers == {"NVDA", "AMD", "META", "VOD"}

\* get_all_holdings: positions combined by ticker, so no ticker twice
Positions ==
    {p \in UNION {[1..n -> PositionTickers] : n \in 0..MaxPositions} :
        \A i, j \in 1..Len(p) : i # j => p[i] # p[j]}

\* what get_technical_indicators and search_news give for a ticker
MarketOutcomes ==
    {[indicators |-> NoIndicators, news |-> <<>>],
     [indicators |-> Indicators(280, 1, <<3, 2, 1>>), news |-> <<PositiveArticle>>],
     [indicators |-> Indicators(751, 0 - 1, <<1, 2, 3>>), news |-> <<NegativeArticle>>],
     [indicators |-> Indicators(350, 0 - 1, <<3, 2, 2>>), news |-> <<>>]}

\* an outcome for each position ticker and one for every other ticker
Markets ==
    {[t \in PositionTickers \cup {STOCKS[i] : i \in 1..Len(STOCKS)} |->
         IF t \in PositionTickers THEN m[t] ELSE other] :
        m \in [PositionTickers -> MarketOutcomes],
        other \in {o \in MarketOutcomes : o.news = <<>>}}

InitPortfolio ==
    /\ fn = "analyze_portfolio"
    /\ \E p \in Positions : \E market \in Markets :
           args = [all_holdings |-> [i \in 1..Len(p) |->
                                        [ticker |-> p[i], quantity |-> i,
                                         total_value |-> 100 * i]],
                   market       |-> market,
                   now          |-> "2026-01-05 09:00"]
    /\ pc = "call"
    /\ ret = NoRet
    /\ Files

\* lines 309-415
AnalyzePortfolio ==
    /\ fn = "analyze_portfolio"
    /\ pc = "call"
    /\ pc' = "done"
    /\ ret' = analyze_portfolio(args.all_holdings, args.market, args.now)
    /\ UNCHANGED <<fn, args, daily_report, fundamentals_dir, synthesis_report>>

NextPortfolio == AnalyzePortfolio

SpecPortfolio == InitPortfolio /\ [][NextPortfolio]_vars

\* the tickers the call walks through
C21_Tickers ==
    IF args.all_holdings = <<>> THEN STOCKS
    ELSE [i \in 1..Len(args.all_holdings) |-> args.all_holdings[i].ticker]

C21_Available(ticker) == DOMAIN args.market[ticker].indicators # {}

\* the number of reported holdings with the label
C21_Labelled(label) ==
    Cardinality({i \in 1..Len(ret.holdings) : ret.holdings[i].signal = label})

\* C21: the holdings of the report of analyze_portfolio are the tickers whose
\* indicators are available, in the order walked, a ticker without
\* indicators being left out and not counted; summary.total is the number of
\* holdings and the sum of summary.bullish, summary.bearish and
\* summary.neutral, each of which is the number of holdings with that label.
C21_SummaryCounts ==
    (fn = "analyze_portfolio" /\ pc = "done")
        => /\ [i \in 1..Len(ret.holdings) |-> ret.holdings[i].ticker]
                  = SelectSeq(C21_Tickers, C21_Available)
           /\ ret.summary.total = Len(ret.holdings)
           /\ ret.summary.total
                  = ret.summary.bullish + ret.summary.bearish + ret.summary.neutral
           /\ ret.summary.bullish = C21_Labelled("BULLISH")
           /\ ret.summary.bearish = C21_Labelled("BEARISH")
           /\ ret.summary.neutral = C21_Labelled("NEUTRAL")
           /\ \A i \in 1..Len(ret.holdings) :
                  ret.holdings[i].signal \in {"BULLISH", "BEARISH", "NEUTRAL"}

\* three positions, the second without indicators, the others with
\* different labels
C21_Witness ==
    /\ fn = "analyze_portfolio" /\ pc = "done"
    /\ Len(args.all_holdings) = 3
    /\ ~C21_Available(args.all_holdings[2].ticker)
    /\ Len(ret.holdings) = 2
    /\ ret.holdings[1].signal # ret.holdings[2].signal
    /\ ret.summary.total = 2

(***************************************************************************)
(* run_full_analysis step by step (run_full_analysis.py lines 68-147)      *)
(***************************************************************************)
\* the loop of lines 93-101 when each alerted ticker has its own outcome: an
\* exception of extract_fundamentals is caught at line 100 inside the loop
RECURSIVE ExtractEach(_, _, _, _)
ExtractEach(dir, alerts, outcomes, now) ==
    IF alerts = <<>> THEN dir
    ELSE Bind(ExtractSave(dir, Head(alerts), outcomes[Head(alerts).ticker], now),
              LAMBDA saved : ExtractEach(saved, Tail(alerts), outcomes, now))

\* fundamentals_extracted, lines 96-99
ExtractedEach(alerts, outcomes) ==
    LET Succeeded(alert) == outcomes[alert.ticker] = "success"
        succeeded == SelectSeq(alerts, Succeeded)
    IN  [i \in 1..Len(succeeded) |-> succeeded[i].ticker]

\* results["steps"][name] = entry
WithStep(results, name, entry) ==
    [results EXCEPT !.steps =
        [k \in DOMAIN results.steps \cup {name} |->
            IF k = name THEN entry ELSE results.steps[k]]]

\* outcomes of extract_fundamentals for the tickers that can be alerted
StepOutcomes == [{"NVDA", "META"} -> {"raises", "search_error", "success"}]

\* daily_report.json and the fundamentals directory before the run
StepReports == {NoFile, File([holdings |-> <<Holding("AMD", Indicators(620, 0 - 1, <<3, 2, 2>>), <<>>)>>])}

StepFundamentalsDirs ==
    {EmptyDict, [META |-> [ticker |-> "META", status |-> "success",
                           timestamp |-> "2026-01-05T09:00:00",
                           data |-> ParsedMetrics]]}

InitSteps ==
    /\ fn = "run_full_analysis"
    /\ args \in [technical : SeqsUpTo(RunHoldings, MaxRunHoldings),
                 outcomes  : StepOutcomes,
                 raises    : SUBSET {"analyze_portfolio", "generate_all_charts",
                                     "synthesize_portfolio"},
                 now       : {"2026-01-06T09:00:00"}]
    /\ pc = "step_1"
    /\ ret = NoRet
    /\ daily_report \in StepReports
    /\ fundamentals_dir \in StepFundamentalsDirs
    /\ synthesis_report = NoFile

\* lines 70-86; analyze_portfolio is called outside any try
StepTechnical ==
    /\ fn = "run_full_analysis"
    /\ pc = "step_1"
    /\ IF "analyze_portfolio" \in args.raises
       THEN pc' = "raised" /\ ret' = ret
       ELSE /\ pc' = "step_2"
            /\ ret' = [timestamp |-> args.now,
                       steps |-> [technical |->
                                     [status |-> "success",
                                      holdings_count |-> Len(args.technical)]]]
    /\ UNCHANGED <<fn, args, daily_report, fundamentals_dir, synthesis_report>>

\* lines 88-107
StepFundamentals ==
    /\ fn = "run_full_analysis"
    /\ pc = "step_2"
    /\ pc' = "step_3"
    /\ \E rsi_alerts \in {find_rsi_alerts(args.technical)} :
           /\ fundamentals_dir' = ExtractEach(fundamentals_dir, rsi_alerts,
                                              args.outcomes, args.now)
           /\ ret' = WithStep(ret, "fundamentals",
                              [status |-> "success",
                               alerts_found |-> Len(rsi_alerts),
                               extracted |-> ExtractedEach(rsi_alerts, args.outcomes)])
    /\ UNCHANGED <<fn, args, daily_report, synthesis_report>>

StepVisualMutantAbort ==
    /\ fn = "run_full_analysis"
    /\ pc = "step_3"
    /\ IF "generate_all_charts" \in args.raises
       THEN pc' = "done" /\ ret' = WithStep(ret, "visual", [status |-> "error"])
       ELSE pc' = "step_4" /\ ret' = WithStep(ret, "visual", [status |-> "success"])
    /\ UNCHANGED <<fn, args, daily_report, fundamentals_dir, synthesis_report>>

\* lines 109-121
StepVisual ==
    /\ fn = "run_full_analysis"
    /\ pc = "step_3"
    /\ pc' = "step_4"
    /\ ret' = WithStep(ret, "visual",
                       IF "generate_all_charts" \in args.raises
                       THEN [status |-> "error"]
                       ELSE [status |-> "success"])
    /\ UNCHANGED <<fn, args, daily_report, fundamentals_dir, synthesis_report>>

\* lines 123-147
StepSynthesis ==
    /\ fn = "run_full_analysis"
    /\ pc = "step_4"
    /\ pc' = "done"
    /\ IF "synthesize_portfolio" \in args.raises
       THEN /\ ret' = WithStep(ret, "synthesis", [status |-> "error"])
            /\ synthesis_report' = synthesis_report
       ELSE \E synthesis \in SynthesisOutcomes(daily_report, fundamentals_dir, args.now) :
                /\ synthesis_report' = File(synthesis)
                /\ ret' = WithStep(ret, "synthesis",
                                   [status |-> "success",
                                    average_confidence |-> synthesis.summary.average_confidence,
                                    a_rated |-> synthesis.summary.a_rated,
                                    sell_candidates |-> synthesis.summary.sell_candidates])
    /\ UNCHANGED <<fn, args, daily_report, fundamentals_dir>>

NextSteps == StepTechnical \/ StepFundamentals \/ StepVisual \/ StepSynthesis

SpecSteps == InitSteps /\ [][NextSteps]_vars

\* the step entries present at each position of the run
C23_StepsAt ==
    [step_2 |-> {"technical"},
     step_3 |-> {"technical", "fundamentals"},
     step_4 |-> {"technical", "fundamentals", "visual"},
     done   |-> {"technical", "fundamentals", "visual", "synthesis"}]

\* the alerted tickers of the run, in order
C23_Alerted ==
    LET Alerted(h) == h.indicators.rsi > 650 \/ h.indicators.rsi < 350
        alerted == SelectSeq(args.technical, Alerted)
    IN  [i \in 1..Len(alerted) |-> alerted[i].ticker]

C23_State ==
    /\ pc \in {"step_1", "raised"} => ret = NoRet
    /\ pc \in DOMAIN C23_StepsAt =>
          /\ DOMAIN ret.steps = C23_StepsAt[pc]
          /\ \A k \in DOMAIN ret.steps : ret.steps[k].status \in {"success", "error"}
    /\ pc \in {"step_3", "step_4", "done"} =>
          /\ \A i \in 1..Len(C23_Alerted) :
                 args.outcomes[C23_Alerted[i]] = "success"
                     => /\ C23_Alerted[i] \in DOMAIN fundamentals_dir
                        /\ fundamentals_dir[C23_Alerted[i]].timestamp = args.now
          /\ ret.steps.fundamentals.alerts_found = Len(C23_Alerted)
          /\ ret.steps.fundamentals.extracted
                 = SelectSeq(C23_Alerted, LAMBDA t : args.outcomes[t] = "success")
    /\ pc \in {"step_4", "done"} =>
          (ret.steps.visual.status = "error"
              <=> "generate_all_charts" \in args.raises)
    /\ pc = "done" =>
          (ret.steps.synthesis.status = "error"
              <=> "synthesize_portfolio" \in args.raises)

C23_Order ==
    /\ pc = "step_1" => pc' \in {"step_2", "raised"}
    /\ pc = "step_1" /\ "analyze_portfolio" \notin args.raises => pc' = "step_2"
    /\ pc = "step_2" => pc' = "step_3"
    /\ pc = "step_3" => pc' = "step_4"
    /\ pc = "step_4" => pc' = "done"
    /\ pc \in {"done", "raised"} => pc' = pc

\* C23: run_full_analysis runs technical analysis, fundamental extraction,
\* visualisation and synthesis once each in this order; an exception of
\* extract_fundamentals for one alerted ticker leaves the extraction of the
\* other alerted tickers in place, an exception of generate_all_charts or of
\* synthesize_portfolio becomes the status "error" of its step and the next
\* step still runs, and when analyze_portfolio returns the run ends with a
\* status entry for each of the four steps.
C23_StepsInOrder ==
    /\ [](fn = "run_full_analysis" => C23_State)
    /\ [][C23_Order]_vars

\* NVDA and META are alerted; extract_fundamentals raises for NVDA and
\* succeeds for META, generate_all_charts raises, synthesize_portfolio returns
C23_Witness ==
    /\ fn = "run_full_analysis" /\ pc = "done"
    /\ C23_Alerted = <<"NVDA", "META">>
    /\ args.outcomes["NVDA"] = "raises" /\ args.outcomes["META"] = "success"
    /\ args.raises = {"generate_all_charts"}
    /\ ret.steps.fundamentals.extracted = <<"META">>
    /\ fundamentals_dir["META"].timestamp = args.now
    /\ ret.steps.visual.status = "error"
    /\ ret.steps.synthesis.status = "success"

(***************************************************************************)
(* Rating, bucket and suggestion of a verdict                              *)
(***************************************************************************)
C24_In(bucket, r) == \E i \in 1..Len(bucket) : bucket[i] = r

C24_StartsWith(prefix, str) ==
    Len(str) >= Len(prefix) /\ SubSeq(str, 1, Len(prefix)) = prefix

\* C24: in every synthesis that synthesize_portfolio returns, a holding is
\* in a_rated iff its rating is A+ or A, in watch_list iff its rating is B+
\* or B, in sell_candidates iff its rating is C, D or F, and its suggestion
\* starts with "Consider reducing" iff it is in sell_candidates.
C24_RatingBucketSuggestion ==
    (fn = "synthesize_portfolio" /\ pc = "done")
        => \A i \in 1..Len(ret.all_holdings) :
               LET r == ret.all_holdings[i]
               IN  /\ C24_In(ret.a_rated, r) <=> r.rating \in {"A+", "A"}
                   /\ C24_In(ret.watch_list, r) <=> r.rating \in {"B+", "B"}
                   /\ C24_In(ret.sell_candidates, r) <=> r.rating \in {"C", "D", "F"}
                   /\ C24_StartsWith("Consider reducing", r.suggestion)
                          <=> C24_In(ret.sell_candidates, r)
                   /\ r.rating \in {"A+", "A", "B+", "B", "C", "D", "F"}

\* the watch list holds a holding rated B+, whose action is HOLD, next to a
\* sell candidate
C24_Witness ==
    /\ fn = "synthesize_portfolio" /\ pc = "done"
    /\ \E i \in 1..Len(ret.watch_list) :
           /\ ret.watch_list[i].rating = "B+"
           /\ ret.watch_list[i].action = "HOLD"
    /\ ret.sell_candidates # <<>>

(***************************************************************************)
(* The buckets as segments of the ranked list                              *)
(***************************************************************************)
C25_NonIncreasing(bucket) ==
    \A i \in 1..(Len(bucket) - 1) : bucket[i].confidence >= bucket[i + 1].confidence

\* C25: in every synthesis that synthesize_portfolio returns, all_holdings
\* is a_rated followed by watch_list followed by sell_candidates, so each
\* bucket is a contiguous segment of the ranked list in ranked order, and
\* each bucket is sorted by non-increasing confidence.
C25_BucketsAreSegments ==
    (fn = "synthesize_portfolio" /\ pc = "done")
        => /\ ret.all_holdings
                  = ret.a_rated \o ret.watch_list \o ret.sell_candidates
           /\ C25_NonIncreasing(ret.a_rated)
           /\ C25_NonIncreasing(ret.watch_list)
           /\ C25_NonIncreasing(ret.sell_candidates)
           /\ C25_NonIncreasing(ret.all_holdings)

\* a report listed in rising confidence gives one holding in each bucket
C25_Witness ==
    /\ fn = "synthesize_portfolio" /\ pc = "done"
    /\ daily_report.exists
    /\ Len(Get(daily_report.content, "holdings", <<>>)) = 3
    /\ [i \in 1..3 |-> daily_report.content.holdings[i].ticker]
           = <<"META", "AMD", "NVDA">>
    /\ Len(ret.a_rated) = 1 /\ Len(ret.watch_list) = 1
    /\ Len(ret.sell_candidates) = 1
    /\ ret.all_holdings[1].ticker = "NVDA"

(***************************************************************************)
(* Range of the sentiment score and of the confidence                      *)
(***************************************************************************)
\* C26: in every verdict the sentiment score is a whole number from 2 to 8
\* and equals 5 plus its adjustment, so the clamp to [0,10] leaves it as it
\* is; hence the confidence lies between 0.5 and 9.5, and the sub-scores
\* (technical 10, fundamental 0, sentiment 0) do not occur together.
C26_SentimentRange ==
    (fn = "calculate_confidence_score" /\ pc = "done")
        => LET b    == ret.breakdown
               sent == b.sentiment
           IN  /\ sent.score \in {20, 30, 40, 50, 60, 70, 80}
               /\ sent.score = 50 + SumSeq([i \in 1..Len(sent.details) |->
                                               sent.details[i].delta])
               /\ 5 <= ret.confidence /\ ret.confidence <= 95
               /\ ~(b.technical.score = 100 /\ b.fundamental.score = 0
                        /\ sent.score = 0)

\* more than three negative articles and none positive: the sentiment score
\* is 2; with a fundamental score of 0 the confidence is below 5
C26_Witness ==
    /\ fn = "calculate_confidence_score" /\ pc = "done"
    /\ Len(args.holding.news) > 3
    /\ ret.breakdown.sentiment.score = 20
    /\ ret.breakdown.fundamental.score = 0
    /\ ret.confidence < 50

(***************************************************************************)
(* The risk-factor list of a low verdict                                   *)
(***************************************************************************)
C27_Factors ==
    {"RSI overbought", "RSI oversold - potential trap", "Weak fundamentals",
     "Negative sentiment"}

\* the risk factors a suggestion names
C27_Named(suggestion) == {f \in C27_Factors : Contains(f, suggestion)}

C27_EndsWith(suffix, str) ==
    Len(str) >= Len(suffix)
        /\ SubSeq(str, Len(str) - Len(suffix) + 1, Len(str)) = suffix

\* C27: the suggestion of a verdict with confidence below 5 names between 0
\* and 3 risk factors, never both "RSI overbought" and "RSI oversold -
\* potential trap"; when 35 <= rsi <= 70 and the fundamental and sentiment
\* scores are at least 4 it names none and ends with "Risk factors: ".
C27_RiskFactorCount ==
    (fn = "calculate_confidence_score" /\ pc = "done" /\ ret.confidence < 50)
        => LET rsi   == Get(Get(args.holding, "indicators", EmptyDict), "rsi", 500)
               named == C27_Named(ret.suggestion)
               quiet == /\ 350 <= rsi /\ rsi <= 700
                        /\ ret.breakdown.fundamental.score >= 40
                        /\ ret.breakdown.sentiment.score >= 40
           IN  /\ Cardinality(named) <= 3
               /\ ~({"RSI overbought", "RSI oversold - potential trap"} \subseteq named)
               /\ quiet <=> named = {}
               /\ named = {} <=> C27_EndsWith("Risk factors: ", ret.suggestion)

\* a verdict below 5 whose only weakness is the technical score
C27_Witness ==
    /\ fn = "calculate_confidence_score" /\ pc = "done"
    /\ ret.confidence < 50
    /\ ret.breakdown.fundamental.score >= 40
    /\ ret.breakdown.sentiment.score >= 40
    /\ ret.suggestion = "Consider reducing NVDA position. Risk factors: "

(***************************************************************************)
(* Absent fields of a fundamentals record                                  *)
(***************************************************************************)
\* the breakdown has an entry whose label starts with one of the words
C28_HasEntry(breakdown, words) ==
    \E i \in 1..Len(breakdown) : \E w \in words :
        Len(breakdown[i].label) >= Len(w)
            /\ SubSeq(breakdown[i].label, 1, Len(w)) = w

\* C28: for a record with a non-empty data mapping, an absent
\* gross_margin_pct gets the low-margin adjustment of -2, while an absent
\* revenue_billions, eps, eps_guidance or operating_income_billions gets no
\* adjustment; a data mapping that holds only cogs_billions scores 3.0, less
\* than the 5.0 of a record with an empty data mapping.
C28_AbsentMarginPenalty ==
    (fn = "calculate_fundamental_score" /\ pc = "done"
     /\ DOMAIN Get(args.fundamentals, "data", EmptyDict) # {})
        => LET data   == args.fundamentals.data
               absent == {"revenue_billions", "gross_margin_pct", "eps",
                          "eps_guidance", "operating_income_billions"} \ DOMAIN data
           IN  /\ "gross_margin_pct" \in absent
                     => \E i \in 1..Len(ret.breakdown) :
                            /\ ret.breakdown[i].label = "Low margin"
                            /\ ret.breakdown[i].delta = 0 - 20
               /\ "revenue_billions" \in absent
                     => ~C28_HasEntry(ret.breakdown, {"Large cap revenue", "Mid cap revenue"})
               /\ ("eps" \in absent \/ "eps_guidance" \in absent)
                     => ~C28_HasEntry(ret.breakdown,
                                      {"Raising guidance", "Guidance cut", "Stable guidance"})
               /\ "eps" \in absent => ~C28_HasEntry(ret.breakdown, {"Positive EPS"})
               /\ "operating_income_billions" \in absent
                     => ~C28_HasEntry(ret.breakdown, {"Operating profit"})
               /\ DOMAIN data = {"cogs_billions"}
                     => /\ ret.score = 30
                        /\ Len(ret.breakdown) = 1
                        /\ ret.score
                               < calculate_fundamental_score([data |-> EmptyDict]).score

\* the record whose data mapping holds cogs_billions alone
C28_Witness ==
    /\ fn = "calculate_fundamental_score" /\ pc = "done"
    /\ "data" \in DOMAIN args.fundamentals
    /\ args.fundamentals.data = [cogs_billions |-> 1]
    /\ ret.score = 30
    /\ ret.breakdown[1].label = "Low margin"

(***************************************************************************)
(* The EPS-guidance rule for a negative eps                                *)
(***************************************************************************)
C29_Has(breakdown, label) ==
    \E i \in 1..Len(breakdown) : breakdown[i].label = label

\* C29: the stable-guidance adjustment is given only when eps is positive
\* and 0.9*eps <= eps_guidance <= eps; when eps is negative, a non-zero
\* eps_guidance that is not greater than eps, eps itself included, gets the
\* guidance-cut adjustment of -3, and the stable adjustment is never given.
C29_NegativeEpsGuidance ==
    (fn = "calculate_fundamental_score" /\ pc = "done"
     /\ DOMAIN Get(args.fundamentals, "data", EmptyDict) # {})
        => LET data == args.fundamentals.data
               eps  == Get(data, "eps", 0)
               eg   == Get(data, "eps_guidance", 0)
           IN  /\ C29_Has(ret.breakdown, "Stable guidance")
                     => (eps > 0 /\ 9 * eps <= 10 * eg /\ eg <= eps)
               /\ (eps < 0 /\ eg # 0 /\ eg <= eps)
                     => /\ 10 * eg < 9 * eps
                        /\ \E i \in 1..Len(ret.breakdown) :
                               /\ ret.breakdown[i].label = "Guidance cut"
                               /\ ret.breakdown[i].delta = 0 - 30
               /\ eps < 0 => ~C29_Has(ret.breakdown, "Stable guidance")

\* eps and eps_guidance both -10: scored as a guidance cut
C29_Witness ==
    /\ fn = "calculate_fundamental_score" /\ pc = "done"
    /\ "data" \in DOMAIN args.fundamentals
    /\ DOMAIN args.fundamentals.data = {"eps", "eps_guidance", "gross_margin_pct"}
    /\ args.fundamentals.data.eps = 0 - 10
    /\ args.fundamentals.data.eps_guidance = 0 - 10
    /\ C29_Has(ret.breakdown, "Guidance cut")

(***************************************************************************)
(* extract_fundamentals applied to what its callees give                   *)
(***************************************************************************)
InitExtract ==
    /\ fn = "extract_fundamentals"
    /\ args \in [ticker        : {"NVDA", "META"},
                 company_name  : {"NVIDIA"},
                 signal        : {"", "BEARISH"},
                 search_result : SearchResults,
                 text          : PdfTexts,
                 metrics       : MetricsFound,
                 raises        : BOOLEAN,
                 now           : {"2026-01-06T09:00:00"}]
    /\ pc = "call"
    /\ ret = NoRet
    /\ daily_report = NoFile
    /\ fundamentals_dir \in EarlierFundamentalsDirs
    /\ synthesis_report = NoFile

\* lines 227-273; a callee or the write of the file may raise, and then
\* nothing is returned
ExtractFundamentals ==
    /\ fn = "extract_fundamentals"
    /\ pc = "call"
    /\ IF args.raises /\ ~ReturnsBeforeSave(args.search_result)
       THEN pc' = "raised" /\ ret' = ret /\ fundamentals_dir' = fundamentals_dir
       ELSE \E result \in {extract_fundamentals(args.ticker, args.company_name,
                                                args.signal, args.search_result,
                                                args.text, args.metrics, args.now)} :
                /\ pc' = "done"
                /\ ret' = result
                /\ fundamentals_dir' =
                       IF ReturnsBeforeSave(args.search_result) THEN fundamentals_dir
                       ELSE SetKey(fundamentals_dir, args.ticker, result)
    /\ UNCHANGED <<fn, args, daily_report, synthesis_report>>

NextExtract == ExtractFundamentals

SpecExtract == InitExtract /\ [][NextExtract]_vars

C30_Returned ==
    /\ ret.status \in {"error", "success", "parsed_empty", "pdf_extract_failed",
                       "sec_fallback"}
    /\ ret.status # "pending"
    /\ ret.status = "success" <=> DOMAIN ret.data # {}
    /\ ret.status # "error"
          => (args.ticker \in DOMAIN fundamentals_dir
                 /\ fundamentals_dir[args.ticker] = ret)

C30_Call ==
    (pc = "call" /\ pc' = "done")
        => /\ ret'.status = "error" => fundamentals_dir' = fundamentals_dir
           /\ \A t \in DOMAIN fundamentals_dir \ {args.ticker} :
                  t \in DOMAIN fundamentals_dir'
                      /\ fundamentals_dir'[t] = fundamentals_dir[t]

\* C30: extract_fundamentals never returns the status "pending": the status
\* returned is error, success, parsed_empty, pdf_extract_failed or
\* sec_fallback; it is "success" iff the data mapping returned is non-empty;
\* the file of the ticker holds the returned result for every status but
\* "error", and a call that returns "error" leaves the fundamentals files as
\* they were.
C30_StatusAndFile ==
    /\ []((fn = "extract_fundamentals" /\ pc = "done") => C30_Returned)
    /\ [][fn = "extract_fundamentals" => C30_Call]_vars

\* the search fails for a ticker whose file an earlier run wrote: the
\* result has status "error" and the file is the earlier one
C30_Witness ==
    /\ fn = "extract_fundamentals" /\ pc = "done"
    /\ ret.status = "error"
    /\ args.ticker \in DOMAIN fundamentals_dir
    /\ fundamentals_dir[args.ticker].data = ParsedMetrics

====
